---- MODULE Spec2Model ----
(***************************************************************************)
(* Model of the EsRepository helpers of diff-dot/elasticsearch:            *)
(*   - entityId: primary key derived from the fields declared as id        *)
(*   - indexesByTimeRange / periodIndexName: names of the time-bucketed    *)
(*     indexes                                                             *)
(*   - routingId, createEntity, indexEntity, entity, entityWithMetadata,   *)
(*     upsertEntity, updateEntity, deleteEntity: the requests sent to the  *)
(*     store and what the store answers                                    *)
(*   - EsClient.instance: the process-wide cache of clients                *)
(*   - Scroller and CompositeAggScroller: the calls of scroll() in flight, *)
(*     the requests they send and the cleanup scroll() does not await      *)
(*   - bulk: the accounting of the items of a bulk response                *)
(* JavaScript strings are sequences of one-character strings, so that      *)
(* concatenation, substr and moment's format are computed and not assumed. *)
(***************************************************************************)
EXTENDS Integers, Sequences, FiniteSets, TLC

VARIABLES pc, op, args, cursor, endAtDate, suffexes, result,
          request, store, handlers, clients,
          scroller, compositeAggScroller, calls, cleanups, wire, responses

\* the scrollers, their calls in flight and their traffic with the client
scrolling == <<scroller, compositeAggScroller, calls, cleanups, wire, responses>>

vars ==
  <<pc, op, args, cursor, endAtDate, suffexes, result, request, store, handlers, clients,
    scrolling>>

----------------------------------------------------------------------------
(* JavaScript values: undefined, null and strings *)

JsUndefined == [t |-> "undefined", s |-> <<>>]

JsNull == [t |-> "null", s |-> <<>>]

JsStr(chars) == [t |-> "string", s |-> chars]

\* String(v) as applied by the + operator when the other operand is a string
ToJsString(v) ==
  CASE v.t = "undefined" -> <<"u", "n", "d", "e", "f", "i", "n", "e", "d">>
    [] v.t = "null" -> <<"n", "u", "l", "l">>
    [] OTHER -> v.s

\* String.prototype.substr(start, length): a length <= 0 gives ""
Substr(str, start, length) ==
  IF length <= 0 THEN <<>>
  ELSE SubSeq(str, start + 1, IF start + length > Len(str) THEN Len(str) ELSE start + length)

----------------------------------------------------------------------------
(* String.prototype.localeCompare (ICU root collation) on the letters the  *)
(* property names use: letters compare alphabetically without regard to    *)
(* case first; if that is a tie, the first case difference decides, lower  *)
(* case first.                                                             *)

Primary(c) ==
  CASE c \in {"a", "A"} -> 1
    [] c \in {"b", "B"} -> 2
    [] c \in {"x", "X"} -> 3

Tertiary(c) == IF c \in {"a", "b", "x"} THEN 0 ELSE 1

RECURSIVE CompareWeights(_, _)
CompareWeights(a, b) ==
  IF a = <<>> /\ b = <<>> THEN 0
  ELSE IF a = <<>> THEN -1
  ELSE IF b = <<>> THEN 1
  ELSE IF Head(a) < Head(b) THEN -1
  ELSE IF Head(a) > Head(b) THEN 1
  ELSE CompareWeights(Tail(a), Tail(b))

LocaleCompare(a, b) ==
  LET pa == [i \in 1..Len(a) |-> Primary(a[i])]
      pb == [i \in 1..Len(b) |-> Primary(b[i])]
      ta == [i \in 1..Len(a) |-> Tertiary(a[i])]
      tb == [i \in 1..Len(b) |-> Tertiary(b[i])]
  IN IF CompareWeights(pa, pb) # 0 THEN CompareWeights(pa, pb)
     ELSE CompareWeights(ta, tb)

----------------------------------------------------------------------------
(* Entities.  An entity is its type's id declarations, in declaration      *)
(* order (the order of the Map of @EntityId properties), and the current   *)
(* value of every property.                                                *)

\* getEntityIdProps: the Map of the declared id properties, undefined when
\* the type declares none
GetEntityIdProps(entity) ==
  IF entity.idProps = <<>> THEN [defined |-> FALSE, entries |-> <<>>]
  ELSE [defined |-> TRUE, entries |-> entity.idProps]

\* options.seq || 0
SeqOrZero(options) == IF options.hasSeq /\ options.seq # 0 THEN options.seq ELSE 0

\* a comparator that forgets seq
Comparator_NameOnly(a, b) == LocaleCompare(a.prop, b.prop)

\* (a, b) => a.seq - b.seq || a.prop.localeCompare(b.prop)
Comparator(a, b) ==
  IF a.seq - b.seq # 0 THEN a.seq - b.seq ELSE LocaleCompare(a.prop, b.prop)

\* Array.prototype.sort is stable: x goes behind every element that does
\* not compare greater than it
RECURSIVE InsertSorted(_, _)
InsertSorted(list, x) ==
  IF list = <<>> THEN <<x>>
  ELSE IF Comparator(Head(list), x) <= 0 THEN <<Head(list)>> \o InsertSorted(Tail(list), x)
  ELSE <<x>> \o list

RECURSIVE SortEntityIdList(_)
SortEntityIdList(list) ==
  IF list = <<>> THEN <<>>
  ELSE InsertSorted(SortEntityIdList(SubSeq(list, 1, Len(list) - 1)), list[Len(list)])

\* for (const item of sortedEntityIdList) entityId += entity[item.prop] + delimiter
RECURSIVE ConcatIdValues(_, _, _)
ConcatIdValues(sorted, entity, delimiter) ==
  IF sorted = <<>> THEN <<>>
  ELSE ToJsString(entity.values[Head(sorted).prop]) \o delimiter
       \o ConcatIdValues(Tail(sorted), entity, delimiter)

\* entityId without the early return for a type without id fields
EntityIdOf_NoEarlyReturn(entity, delimiterArg) ==
  LET delimiter == IF delimiterArg.t = "undefined" THEN <<"-">> ELSE delimiterArg.s
      entityIdProps == GetEntityIdProps(entity)
      entityIdList == [i \in 1..Len(entityIdProps.entries) |->
                         [prop |-> entityIdProps.entries[i].prop,
                          seq |-> SeqOrZero(entityIdProps.entries[i].options)]]
      entityId == ConcatIdValues(SortEntityIdList(entityIdList), entity, delimiter)
  IN JsStr(Substr(entityId, 0, Len(entityId) - Len(delimiter)))

EntityIdOf(entity, delimiterArg) ==
  LET delimiter == IF delimiterArg.t = "undefined" THEN <<"-">> ELSE delimiterArg.s
      entityIdProps == GetEntityIdProps(entity)
      entityIdList == [i \in 1..Len(entityIdProps.entries) |->
                         [prop |-> entityIdProps.entries[i].prop,
                          seq |-> SeqOrZero(entityIdProps.entries[i].options)]]
      sortedEntityIdList == SortEntityIdList(entityIdList)
      entityId == ConcatIdValues(sortedEntityIdList, entity, delimiter)
  IN IF ~entityIdProps.defined THEN JsUndefined
     ELSE JsStr(Substr(entityId, 0, Len(entityId) - Len(delimiter)))

----------------------------------------------------------------------------
(* moment.  A moment is an instant (epoch seconds and the milliseconds     *)
(* within the second) together with the UTC offset, in hours, that its     *)
(* calendar fields are read at.                                            *)

\* utcOffset(9)
UtcOffsetHours == 9

\* days since 1970-01-01 of the proleptic Gregorian date y-m-d (m in 1..12)
DaysFromCivil(y, m, d) ==
  LET yy == IF m <= 2 THEN y - 1 ELSE y
      era == yy \div 400
      yoe == yy - era * 400
      mp == IF m > 2 THEN m - 3 ELSE m + 9
      doy == (153 * mp + 2) \div 5 + d - 1
      doe == yoe * 365 + yoe \div 4 - yoe \div 100 + doy
  IN era * 146097 + doe - 719468

\* the Gregorian date of day number z, computed in stages: the day of the
\* 400-year era, the year of the era, the day of the year counted from
\* March 1, the month counted from March
CivilOfMonth(y, m, d) == [year |-> y + (IF m <= 2 THEN 1 ELSE 0), month |-> m, date |-> d]

CivilOfMp(era, yoe, doy, mp) ==
  CivilOfMonth(yoe + era * 400, IF mp < 10 THEN mp + 3 ELSE mp - 9,
               doy - (153 * mp + 2) \div 5 + 1)

CivilOfDoy(era, yoe, doy) == CivilOfMp(era, yoe, doy, (5 * doy + 2) \div 153)

CivilOfYoe(era, doe, yoe) ==
  CivilOfDoy(era, yoe, doe - (365 * yoe + yoe \div 4 - yoe \div 100))

CivilOfDoe(era, doe) ==
  CivilOfYoe(era, doe, (doe - doe \div 1460 + doe \div 36524 - doe \div 146096) \div 365)

CivilOfShifted(zz) == CivilOfDoe(zz \div 146097, zz % 146097)

CivilFromDays(z) == CivilOfShifted(z + 719468)

\* moment.unix(timestamp) read at the given offset
MomentUnix(timestamp, offset) == [unix |-> timestamp, milli |-> 0, offset |-> offset]

UtcOffset_Kept(m, hours) == m

\* moment#utcOffset(hours): the same instant read at the given offset
UtcOffset(m, hours) == [m EXCEPT !.offset = hours]

\* moment#unix(): whole seconds
Unix(m) == m.unix

LocalSeconds(m) == m.unix + m.offset * 3600

Fields(m) == CivilFromDays(LocalSeconds(m) \div 86400)

SecondOfDay(m) == LocalSeconds(m) % 86400

\* get with the month counted from 1
Get_OneBasedMonth(m, unit) ==
  CASE unit = "year" -> Fields(m).year
    [] unit = "month" -> Fields(m).month
    [] unit = "date" -> Fields(m).date

\* moment#get: 'month' is zero-based
Get(m, unit) ==
  CASE unit = "year" -> Fields(m).year
    [] unit = "month" -> Fields(m).month - 1
    [] unit = "date" -> Fields(m).date

\* the moment whose calendar fields at m's offset are y-mo-d and sod
\* seconds into the day
FromFields(m, y, mo, d, sod, ms) ==
  [unix |-> DaysFromCivil(y, mo, d) * 86400 + sod - m.offset * 3600,
   milli |-> ms, offset |-> m.offset]

\* moment#startOf
StartOfFields(m, f, unit) ==
  CASE unit = "year" -> FromFields(m, f.year, 1, 1, 0, 0)
    [] unit = "month" -> FromFields(m, f.year, f.month, 1, 0, 0)
    [] unit = "date" -> FromFields(m, f.year, f.month, f.date, 0, 0)

StartOf(m, unit) == StartOfFields(m, Fields(m), unit)

DaysInMonth(y, mo) ==
  IF mo = 12 THEN 31 ELSE DaysFromCivil(y, mo + 1, 1) - DaysFromCivil(y, mo, 1)

\* moment#add(n, 'month'): the day of the month is clamped to the length
\* of the target month, the time of day is kept
ClampDate(date, daysInMonth) == IF date > daysInMonth THEN daysInMonth ELSE date

AddMonthsTo(m, date, y, mo) ==
  FromFields(m, y, mo, ClampDate(date, DaysInMonth(y, mo)), SecondOfDay(m), m.milli)

AddMonthsIndex(m, date, idx) == AddMonthsTo(m, date, idx \div 12, (idx % 12) + 1)

AddMonthsFields(m, f, n) == AddMonthsIndex(m, f.date, f.year * 12 + (f.month - 1) + n)

AddMonths(m, n) == AddMonthsFields(m, Fields(m), n)

\* a day taken for twelve hours
Add_HalfDay(m, n, unit) ==
  CASE unit = "year" -> AddMonths(m, 12 * n)
    [] unit = "month" -> AddMonths(m, n)
    [] unit = "day" -> [m EXCEPT !.unix = m.unix + n * 43200]

\* moment#add
Add(m, n, unit) ==
  CASE unit = "year" -> AddMonths(m, 12 * n)
    [] unit = "month" -> AddMonths(m, n)
    [] unit = "day" -> [m EXCEPT !.unix = m.unix + n * 86400]

\* moment#endOf: the last millisecond before the start of the next unit
LastMillisecondBefore(next) == [unix |-> next.unix - 1, milli |-> 999, offset |-> next.offset]

EndOf(m, unit) ==
  LastMillisecondBefore(Add(StartOf(m, unit), 1, IF unit = "date" THEN "day" ELSE unit))

Digit(n) == <<"0", "1", "2", "3", "4", "5", "6", "7", "8", "9">>[n + 1]

\* the tokens YYYY, MM and DD of moment#format: zero-padded decimals
Pad4(n) == <<Digit((n \div 1000) % 10), Digit((n \div 100) % 10), Digit((n \div 10) % 10), Digit(n % 10)>>

Pad2(n) == <<Digit((n \div 10) % 10), Digit(n % 10)>>

\* moment#format for the five format strings the repository uses; the
\* characters '.' and '*' are copied
FormatFields(f, fmt) ==
  CASE fmt = "YYYY" -> Pad4(f.year)
    [] fmt = "YYYY.MM" -> Pad4(f.year) \o <<".">> \o Pad2(f.month)
    [] fmt = "YYYY.MM.DD" -> Pad4(f.year) \o <<".">> \o Pad2(f.month) \o <<".">> \o Pad2(f.date)
    [] fmt = "YYYY.*" -> Pad4(f.year) \o <<".", "*">>
    [] fmt = "YYYY.MM.*" -> Pad4(f.year) \o <<".">> \o Pad2(f.month) \o <<".", "*">>

Format(m, fmt) == FormatFields(Fields(m), fmt)

----------------------------------------------------------------------------
(* indexesByTimeRange *)

PeriodTypes == {"DAILY", "MONTHLY", "YEARLY"}

\* the unit the cursor and the end are aligned to
AlignUnit(splitPeriodType) ==
  CASE splitPeriodType = "YEARLY" -> "year"
    [] splitPeriodType = "MONTHLY" -> "month"
    [] splitPeriodType = "DAILY" -> "date"

\* endAt < startAt
InvalidTimeRange_Strict(startAt, endAt) == endAt <= startAt

InvalidTimeRange(startAt, endAt) == endAt < startAt

\* the loop body with group selection never switched off
LoopBody_AlwaysGroup(cur, endDate, splitPeriodType, enableGroupSelect) ==
  CASE splitPeriodType = "YEARLY" ->
         [suffix |-> Format(cur, "YYYY"), cursor |-> Add(cur, 1, "year")]
    [] splitPeriodType = "MONTHLY" ->
         IF Get(cur, "month") = 0 /\ Unix(EndOf(cur, "year")) <= Unix(endDate)
         THEN [suffix |-> Format(cur, "YYYY.*"),
               cursor |-> StartOf(Add(cur, 1, "year"), "year")]
         ELSE [suffix |-> Format(cur, "YYYY.MM"), cursor |-> Add(cur, 1, "month")]
    [] splitPeriodType = "DAILY" ->
         IF /\ Get(cur, "month") = 0
            /\ Get(cur, "date") = 1
            /\ Unix(EndOf(cur, "year")) <= Unix(endDate)
         THEN [suffix |-> Format(cur, "YYYY.*"),
               cursor |-> StartOf(Add(cur, 1, "year"), "year")]
         ELSE IF Get(cur, "date") = 1 /\ Unix(EndOf(cur, "month")) <= Unix(endDate)
         THEN [suffix |-> Format(cur, "YYYY.MM.*"),
               cursor |-> StartOf(Add(cur, 1, "month"), "month")]
         ELSE [suffix |-> Format(cur, "YYYY.MM.DD"), cursor |-> Add(cur, 1, "day")]

\* the loop body that groups a year or a month without looking at the end
LoopBody_NoEndCheck(cur, endDate, splitPeriodType, enableGroupSelect) ==
  CASE splitPeriodType = "YEARLY" ->
         [suffix |-> Format(cur, "YYYY"), cursor |-> Add(cur, 1, "year")]
    [] splitPeriodType = "MONTHLY" ->
         IF enableGroupSelect /\ Get(cur, "month") = 0
         THEN [suffix |-> Format(cur, "YYYY.*"),
               cursor |-> StartOf(Add(cur, 1, "year"), "year")]
         ELSE [suffix |-> Format(cur, "YYYY.MM"), cursor |-> Add(cur, 1, "month")]
    [] splitPeriodType = "DAILY" ->
         IF enableGroupSelect /\ Get(cur, "month") = 0 /\ Get(cur, "date") = 1
         THEN [suffix |-> Format(cur, "YYYY.*"),
               cursor |-> StartOf(Add(cur, 1, "year"), "year")]
         ELSE IF enableGroupSelect /\ Get(cur, "date") = 1
         THEN [suffix |-> Format(cur, "YYYY.MM.*"),
               cursor |-> StartOf(Add(cur, 1, "month"), "month")]
         ELSE [suffix |-> Format(cur, "YYYY.MM.DD"), cursor |-> Add(cur, 1, "day")]

\* the loop body that tries the month before the year
LoopBody_MonthFirst(cur, endDate, splitPeriodType, enableGroupSelect) ==
  CASE splitPeriodType = "YEARLY" ->
         [suffix |-> Format(cur, "YYYY"), cursor |-> Add(cur, 1, "year")]
    [] splitPeriodType = "MONTHLY" ->
         IF /\ enableGroupSelect
            /\ Get(cur, "month") = 0
            /\ Unix(EndOf(cur, "year")) <= Unix(endDate)
         THEN [suffix |-> Format(cur, "YYYY.*"),
               cursor |-> StartOf(Add(cur, 1, "year"), "year")]
         ELSE [suffix |-> Format(cur, "YYYY.MM"), cursor |-> Add(cur, 1, "month")]
    [] splitPeriodType = "DAILY" ->
         IF /\ enableGroupSelect
            /\ Get(cur, "date") = 1
            /\ Unix(EndOf(cur, "month")) <= Unix(endDate)
         THEN [suffix |-> Format(cur, "YYYY.MM.*"),
               cursor |-> StartOf(Add(cur, 1, "month"), "month")]
         ELSE IF /\ enableGroupSelect
                 /\ Get(cur, "month") = 0
                 /\ Get(cur, "date") = 1
                 /\ Unix(EndOf(cur, "year")) <= Unix(endDate)
         THEN [suffix |-> Format(cur, "YYYY.*"),
               cursor |-> StartOf(Add(cur, 1, "year"), "year")]
         ELSE [suffix |-> Format(cur, "YYYY.MM.DD"), cursor |-> Add(cur, 1, "day")]

\* one iteration of the while loop: the suffix pushed and the cursor after it
LoopBody(cur, endDate, splitPeriodType, enableGroupSelect) ==
  CASE splitPeriodType = "YEARLY" ->
         [suffix |-> Format(cur, "YYYY"), cursor |-> Add(cur, 1, "year")]
    [] splitPeriodType = "MONTHLY" ->
         IF /\ enableGroupSelect
            /\ Get(cur, "month") = 0
            /\ Unix(EndOf(cur, "year")) <= Unix(endDate)
         THEN [suffix |-> Format(cur, "YYYY.*"),
               cursor |-> StartOf(Add(cur, 1, "year"), "year")]
         ELSE [suffix |-> Format(cur, "YYYY.MM"), cursor |-> Add(cur, 1, "month")]
    [] splitPeriodType = "DAILY" ->
         IF /\ enableGroupSelect
            /\ Get(cur, "month") = 0
            /\ Get(cur, "date") = 1
            /\ Unix(EndOf(cur, "year")) <= Unix(endDate)
         THEN [suffix |-> Format(cur, "YYYY.*"),
               cursor |-> StartOf(Add(cur, 1, "year"), "year")]
         ELSE IF /\ enableGroupSelect
                 /\ Get(cur, "date") = 1
                 /\ Unix(EndOf(cur, "month")) <= Unix(endDate)
         THEN [suffix |-> Format(cur, "YYYY.MM.*"),
               cursor |-> StartOf(Add(cur, 1, "month"), "month")]
         ELSE [suffix |-> Format(cur, "YYYY.MM.DD"), cursor |-> Add(cur, 1, "day")]

\* cursor.unix() <= endAtDate.unix()
LoopCondition(cur, endDate) == Unix(cur) <= Unix(endDate)

\* [...new Set(suffexes)]: the first occurrence of every element, in order
\* (halving keeps the evaluation shallow for long lists)
RECURSIVE Dedup(_)
Dedup(list) ==
  IF Len(list) <= 1 THEN list
  ELSE LET half == Len(list) \div 2
           left == Dedup(SubSeq(list, 1, half))
           right == Dedup(SubSeq(list, half + 1, Len(list)))
           seen == {left[i] : i \in 1..Len(left)}
           Fresh(v) == v \notin seen
       IN left \o SelectSeq(right, Fresh)

\* the prefix put behind the suffix
FinalIndexes_SuffixFirst(prefix, list) ==
  LET unique == Dedup(list)
  IN [i \in 1..Len(unique) |-> unique[i] \o prefix]

\* the legacy selector's fallback: more than 100 indexes become prefix + "*"
FinalIndexes_Fallback(prefix, list) ==
  IF Len(list) > 100 THEN <<prefix \o <<"*">>>>
  ELSE [i \in 1..Len(Dedup(list)) |-> prefix \o Dedup(list)[i]]

\* [...new Set(suffexes)].map(v => prefix + v)
FinalIndexes(prefix, list) ==
  LET unique == Dedup(list)
  IN [i \in 1..Len(unique) |-> prefix \o unique[i]]

\* periodIndexName whose default branch falls back to the yearly name
PeriodIndexNameOf_DefaultYearly(prefix, timestamp, period, hostOffset) ==
  LET date == MomentUnix(timestamp, hostOffset)
  IN CASE period = "DAILY" ->
            [kind |-> "return", value |-> prefix \o Format(date, "YYYY.MM.DD"), error |-> ""]
       [] period = "MONTHLY" ->
            [kind |-> "return", value |-> prefix \o Format(date, "YYYY.MM"), error |-> ""]
       [] OTHER ->
            [kind |-> "return", value |-> prefix \o Format(date, "YYYY"), error |-> ""]

\* periodIndexName: moment.unix(timestamp) without utcOffset reads the
\* calendar fields at the offset of the host's time zone
PeriodIndexNameOf(prefix, timestamp, period, hostOffset) ==
  LET date == MomentUnix(timestamp, hostOffset)
  IN CASE period = "DAILY" ->
            [kind |-> "return", value |-> prefix \o Format(date, "YYYY.MM.DD"), error |-> ""]
       [] period = "MONTHLY" ->
            [kind |-> "return", value |-> prefix \o Format(date, "YYYY.MM"), error |-> ""]
       [] period = "YEARLY" ->
            [kind |-> "return", value |-> prefix \o Format(date, "YYYY"), error |-> ""]
       [] OTHER -> [kind |-> "throw", value |-> <<>>, error |-> "RangeError"]

----------------------------------------------------------------------------
(* routingId and the requests of the write and read operations *)

\* a JavaScript value used as a condition: undefined, null and "" are falsy
Truthy(v) == v.t = "string" /\ v.s # <<>>

\* getRoutingIdProp(entity): the property declared with RoutingId, undefined without one
GetRoutingIdProp(entity) == entity.routingProp

RoutingIdOf_FirstIdProp(entity) ==
  LET routingIdProp == GetRoutingIdProp(entity)
  IN IF Truthy(routingIdProp) THEN entity.values[routingIdProp.s]
     ELSE IF entity.idProps # <<>> THEN entity.values[entity.idProps[1].prop]
     ELSE JsUndefined

\* routingId({ entity }): entity[routingIdProp], a stored field or what its getter computes
RoutingIdOf(entity) ==
  LET routingIdProp == GetRoutingIdProp(entity)
  IN IF Truthy(routingIdProp) THEN entity.values[routingIdProp.s] ELSE JsUndefined

\* classToPlain(entity): the properties that are not excluded
ClassToPlain(entity) ==
  [p \in DOMAIN entity.values \ entity.excluded |-> entity.values[p]]

\* the body as the client serializes it: JSON has no property whose value is undefined
Serialize(plain) ==
  [p \in {q \in DOMAIN plain : plain[q] # JsUndefined} |-> plain[p]]

\* plainToClass(entityClass, source): the properties of the source the class does not exclude
PlainToClass(entityClass, source) ==
  [p \in DOMAIN source \ entityClass |-> source[p]]

NoRequest ==
  [api |-> "none", index |-> "", id |-> JsUndefined, routing |-> JsUndefined,
   body |-> <<>>, upsert |-> FALSE]

\* if (routingId) params.routing = routingId
RoutingParam_Always(routing) == IF routing = JsUndefined THEN JsUndefined ELSE JsStr(ToJsString(routing))

RoutingParam(routing) == IF Truthy(routing) THEN routing ELSE JsUndefined

\* indexParams of createEntity, after the check of the derived id
CreateParams(entity, index) ==
  [api |-> "create", index |-> index, id |-> EntityIdOf(entity, JsUndefined),
   routing |-> RoutingParam(RoutingIdOf(entity)), body |-> ClassToPlain(entity),
   upsert |-> FALSE]

\* indexParams of indexEntity
IndexParams(entity, index) ==
  [api |-> "index", index |-> index, id |-> EntityIdOf(entity, JsUndefined),
   routing |-> RoutingParam(RoutingIdOf(entity)), body |-> ClassToPlain(entity),
   upsert |-> FALSE]

\* getParmas of entity and of entityWithMetadata
GetParams(index, id, routing) ==
  [api |-> "get", index |-> index, id |-> JsStr(id), routing |-> RoutingParam(routing),
   body |-> <<>>, upsert |-> FALSE]

UpsertParams_DerivedId(id, entity, index, routing) ==
  [api |-> "update", index |-> index, id |-> EntityIdOf(entity, JsUndefined),
   routing |-> RoutingParam(routing), body |-> ClassToPlain(entity), upsert |-> TRUE]

\* upsertParams of upsertEntity: body { doc_as_upsert: true, doc }
UpsertParams(id, entity, index, routing) ==
  [api |-> "update", index |-> index, id |-> JsStr(id), routing |-> RoutingParam(routing),
   body |-> ClassToPlain(entity), upsert |-> TRUE]

\* updateParams of updateEntity: body { doc }
UpdateParams(id, entity, index, routing) ==
  [api |-> "update", index |-> index, id |-> JsStr(id), routing |-> RoutingParam(routing),
   body |-> ClassToPlain(entity), upsert |-> FALSE]

\* deleteParams of deleteEntity
DeleteParams(id, index, routing) ==
  [api |-> "delete", index |-> index, id |-> JsStr(id), routing |-> RoutingParam(routing),
   body |-> <<>>, upsert |-> FALSE]

----------------------------------------------------------------------------
(* The store behind this.client: documents by index and id.  What the     *)
(* client answers is what the repository code reads of it: a write        *)
(* response, a get response, or a rejected promise.                        *)

\* ids the store assigns to a document indexed without one
AutoIds == {<<"#", "1">>, <<"#", "2">>}

Key(params) == <<params.index, params.id.s>>

Put(docs, key, doc) == [k \in DOMAIN docs \cup {key} |-> IF k = key THEN doc ELSE docs[k]]

Remove(docs, key) == [k \in DOMAIN docs \ {key} |-> docs[k]]

\* a partial document merged into a stored source
Merge(source, partial) ==
  [p \in DOMAIN source \cup DOMAIN partial |-> IF p \in DOMAIN partial THEN partial[p] ELSE source[p]]

Document(params) == [source |-> Serialize(params.body), routing |-> params.routing]

ResponseError == [kind |-> "throw", value |-> <<>>, error |-> "ResponseError"]

WriteResponse(res, id) ==
  [kind |-> "return", value |-> [result |-> res, id |-> id], error |-> ""]

\* whether a request finds a stored document: one sent with another routing than the
\* document was written with may look on another shard
Located(docs, params) ==
  IF Key(params) \notin DOMAIN docs THEN {FALSE}
  ELSE IF docs[Key(params)].routing = params.routing THEN {TRUE}
  ELSE {TRUE, FALSE}

\* client.create: the outcomes [docs, response] of a request
ClientCreate(docs, params) ==
  IF Key(params) \in DOMAIN docs THEN {[docs |-> docs, response |-> ResponseError]}
  ELSE {[docs |-> Put(docs, Key(params), Document(params)),
         response |-> WriteResponse("created", params.id.s)]}

\* client.index: PUT with an id, POST without one; an empty id is no document path
ClientIndex(docs, params) ==
  IF params.id = JsUndefined
  THEN {[docs |-> Put(docs, <<params.index, id>>, Document(params)),
         response |-> WriteResponse("created", id)] : id \in {i \in AutoIds : <<params.index, i>> \notin DOMAIN docs}}
  ELSE IF params.id.s = <<>> THEN {[docs |-> docs, response |-> ResponseError]}
  ELSE {[docs |-> Put(docs, Key(params), Document(params)),
         response |-> WriteResponse(IF Key(params) \in DOMAIN docs THEN "updated" ELSE "created",
                                    params.id.s)]}

\* client.update: a partial document, inserted when missing only with doc_as_upsert
ClientUpdate(docs, params) ==
  {IF found
   THEN [docs |-> Put(docs, Key(params),
                      [source |-> Merge(docs[Key(params)].source, Serialize(params.body)),
                       routing |-> docs[Key(params)].routing]),
         response |-> WriteResponse("updated", params.id.s)]
   ELSE IF params.upsert /\ Key(params) \notin DOMAIN docs /\ params.id.s # <<>>
   THEN [docs |-> Put(docs, Key(params), Document(params)),
         response |-> WriteResponse("created", params.id.s)]
   ELSE [docs |-> docs, response |-> ResponseError]
   : found \in Located(docs, params)}

\* client.delete
ClientDelete(docs, params) ==
  {IF found
   THEN [docs |-> Remove(docs, Key(params)), response |-> WriteResponse("deleted", params.id.s)]
   ELSE [docs |-> docs, response |-> ResponseError]
   : found \in Located(docs, params)}

NotFound == [found |-> FALSE, id |-> <<>>, index |-> "", routing |-> JsUndefined, source |-> <<>>]

\* client.get with ignore: [404]: the body of the response
ClientGet(docs, params) ==
  {IF found
   THEN [found |-> TRUE, id |-> params.id.s, index |-> params.index,
         routing |-> docs[Key(params)].routing, source |-> docs[Key(params)].source]
   ELSE NotFound
   : found \in Located(docs, params)}

NoMetadata == [id |-> <<>>, index |-> "", routing |-> JsUndefined]

\* what entity and entityWithMetadata return when the document is not found
Undefined ==
  [kind |-> "return", value |-> [defined |-> FALSE, entity |-> <<>>, metadata |-> NoMetadata],
   error |-> ""]

\* entity: undefined, or plainToClass of the source
EntityOf(entityClass, body) ==
  IF ~body.found THEN Undefined
  ELSE [kind |-> "return",
        value |-> [defined |-> TRUE, entity |-> PlainToClass(entityClass, body.source),
                   metadata |-> NoMetadata],
        error |-> ""]

\* entityWithMetadata: undefined, or the entity with _id, _index and _routing
EntityWithMetadataOf(entityClass, body) ==
  IF ~body.found THEN Undefined
  ELSE [kind |-> "return",
        value |-> [defined |-> TRUE, entity |-> PlainToClass(entityClass, body.source),
                   metadata |-> [id |-> body.id, index |-> body.index, routing |-> body.routing]],
        error |-> ""]

----------------------------------------------------------------------------
(* EsClient.instance *)

\* JSON.stringify(target): the properties in insertion order, those whose value is
\* undefined left out
JsonStringify(target) == SelectSeq(target, LAMBDA property : property.value # JsUndefined)

InstanceOf_NoLookup(cache, count, target) ==
  [handlers |-> Put(cache, JsonStringify(target), count + 1), clients |-> count + 1,
   client |-> count + 1]

\* instance(target): the client of the cache key, constructed when the cache has none;
\* a client is named by the number of clients constructed up to it
InstanceOf(cache, count, target) ==
  LET cacheKey == JsonStringify(target)
  IN IF cacheKey \notin DOMAIN cache
     THEN [handlers |-> Put(cache, cacheKey, count + 1), clients |-> count + 1,
           client |-> count + 1]
     ELSE [handlers |-> cache, clients |-> count, client |-> cache[cacheKey]]

----------------------------------------------------------------------------
(* Scroller.  A call of scroll() runs to its await, sends its request and  *)
(* waits; what it does on the answer runs to its end.  A cleanup that      *)
(* scroll() has started waits for clearScroll on its own.                  *)

\* no Scroller constructed yet
NoScroller ==
  [scrollId |-> JsUndefined, alive |-> "", autoClealup |-> FALSE,
   includeDocumentMeta |-> FALSE]

\* the scroll id the store gives the search context opened by the n-th request
ScrollIdOf(n) == JsStr(<<"c", Digit(n)>>)

\* a scroll() that searches again whatever scroll id it holds
ScrollRequest_SearchAgain(scr) ==
  [api |-> "search", scroll_id |-> JsUndefined, scroll |-> scr.alive]

\* scroll() up to its await: the initial search with scroll: alive when no scroll id
\* is held, client.scroll({ scroll_id, scroll }) otherwise
ScrollRequest(scr) ==
  IF ~Truthy(scr.scrollId)
  THEN [api |-> "search", scroll_id |-> JsUndefined, scroll |-> scr.alive]
  ELSE [api |-> "scroll", scroll_id |-> scr.scrollId, scroll |-> scr.alive]

\* res.body.hits.hits.map(data => Object.assign(data._source, includeDocumentMeta ?
\* { _id: data._id, _index: data._index, _routing: data._routing } : {}))
Payload(hits, includeDocumentMeta) ==
  [i \in 1..Len(hits) |->
     IF includeDocumentMeta
     THEN Merge(hits[i]._source, (<<"_id">> :> hits[i]._id) @@ (<<"_index">> :> hits[i]._index)
                                   @@ (<<"_routing">> :> hits[i]._routing))
     ELSE hits[i]._source]

\* scroll() returns undefined
NoPayload == [defined |-> FALSE, payload |-> <<>>]

\* cleanup() up to its await: clearScroll of the scroll id held, nothing without one
CleanupRequest(scrollId) ==
  IF Truthy(scrollId)
  THEN <<[api |-> "clearScroll", scroll_id |-> scrollId, scroll |-> ""]>>
  ELSE <<>>

\* scroll() from the payload on: the requests of the cleanup it starts and the
\* value it returns
Deliver(scr, hits) ==
  LET payload == Payload(hits, scr.includeDocumentMeta)
  IN IF Len(payload) = 0 /\ scr.autoClealup
     THEN [sent |-> CleanupRequest(scr.scrollId), value |-> NoPayload]
     ELSE [sent |-> <<>>, value |-> [defined |-> TRUE, payload |-> payload]]

\* scroll() on the answer of the initial search: [scroller, sent, value]
OnSearch(scr, body) ==
  IF ~Truthy(body._scroll_id)
  THEN [scroller |-> scr, sent |-> <<>>, value |-> NoPayload]
  ELSE LET held == [scr EXCEPT !.scrollId = body._scroll_id]
           rest == Deliver(held, body.hits)
       IN [scroller |-> held, sent |-> rest.sent, value |-> rest.value]

\* the calls in flight without the i-th
Without(seq, i) == SubSeq(seq, 1, i - 1) \o SubSeq(seq, i + 1, Len(seq))

\* a call that starts: those in flight are no longer alone, and neither is it
\* unless none is
Started(inFlight, awaits, position) ==
  [i \in 1..Len(inFlight) |-> [inFlight[i] EXCEPT !.alone = FALSE]]
  \o <<[awaits |-> awaits, request |-> position, alone |-> inFlight = <<>>]>>

----------------------------------------------------------------------------
(* CompositeAggScroller *)

\* const EOL_MARKER = -1
EOL_MARKER == [t |-> "number", s |-> <<"-", "1">>]

\* the truth value JavaScript gives a value in a condition
ToBoolean(v) ==
  CASE v.t \in {"undefined", "null"} -> FALSE
    [] v.t = "string" -> v.s # <<>>
    [] v.t = "number" -> v.s # <<"0">>
    [] OTHER -> TRUE

\* no CompositeAggScroller constructed yet
NoCompositeAggScroller == [bucketName |-> <<>>, dsl |-> <<>>, afterKey |-> JsUndefined]

\* afterDsl.body['aggs'][...]['composite']['after'] = afterKey; bucketName is a
\* string (a path of one name) or an array of two names
SetAfter(dsl, bucketName, afterKey) ==
  IF Len(bucketName) = 1
  THEN [dsl EXCEPT !.body.aggs[bucketName[1]].composite.after = afterKey]
  ELSE [dsl EXCEPT !.body.aggs[bucketName[1]].aggs[bucketName[2]].composite.after = afterKey]

\* a scroll() that sends the key of the page before the last one: the dsl as it is
AggScrollStep_StaleKey(cas) ==
  IF ~ToBoolean(cas.afterKey)
  THEN [sent |-> <<[api |-> "search", dsl |-> cas.dsl]>>, dsl |-> cas.dsl, returns |-> FALSE]
  ELSE IF cas.afterKey = EOL_MARKER
  THEN [sent |-> <<>>, dsl |-> cas.dsl, returns |-> TRUE]
  ELSE [sent |-> <<[api |-> "search", dsl |-> cas.dsl]>>,
        dsl |-> SetAfter(cas.dsl, cas.bucketName, cas.afterKey), returns |-> FALSE]

\* a scroll() without the end-of-list branch
AggScrollStep_NoEol(cas) ==
  IF ~ToBoolean(cas.afterKey)
  THEN [sent |-> <<[api |-> "search", dsl |-> cas.dsl]>>, dsl |-> cas.dsl, returns |-> FALSE]
  ELSE LET afterDsl == SetAfter(cas.dsl, cas.bucketName, cas.afterKey)
       IN [sent |-> <<[api |-> "search", dsl |-> afterDsl]>>, dsl |-> afterDsl,
           returns |-> FALSE]

\* scroll() up to its await or its early return: the request sent, the dsl after it
\* (Object.assign({}, this.dsl) copies the top level only, so the body written to is
\* the body of this.dsl) and whether the call returns undefined at once
AggScrollStep(cas) ==
  IF ~ToBoolean(cas.afterKey)
  THEN [sent |-> <<[api |-> "search", dsl |-> cas.dsl]>>, dsl |-> cas.dsl, returns |-> FALSE]
  ELSE IF cas.afterKey = EOL_MARKER
  THEN [sent |-> <<>>, dsl |-> cas.dsl, returns |-> TRUE]
  ELSE LET afterDsl == SetAfter(cas.dsl, cas.bucketName, cas.afterKey)
       IN [sent |-> <<[api |-> "search", dsl |-> afterDsl]>>, dsl |-> afterDsl,
           returns |-> FALSE]

\* res.body.aggregations[...].after_key
AfterKeyOf(body, bucketName) ==
  IF Len(bucketName) = 1
  THEN body.aggregations[bucketName[1]].after_key
  ELSE body.aggregations[bucketName[1]][bucketName[2]].after_key

\* this.afterKey = after_key || EOL_MARKER
NextAfterKey(body, bucketName) ==
  IF ToBoolean(AfterKeyOf(body, bucketName)) THEN AfterKeyOf(body, bucketName)
  ELSE EOL_MARKER

----------------------------------------------------------------------------
(* bulk *)

\* item['index'] || item['update'] || item['delete'] || item['create']
InfoOf(item) ==
  IF "index" \in DOMAIN item THEN item.index
  ELSE IF "update" \in DOMAIN item THEN item.update
  ELSE IF "delete" \in DOMAIN item THEN item.delete
  ELSE item.create

\* for (const item of items) { ... } and the object returned behind it; an error is
\* counted if (!options.ignore || !options.ignore.includes(info.status)), and its text
\* is `${info.error.type} - ${info.error.reason}`
RECURSIVE BulkLoop(_, _, _, _, _)
BulkLoop(items, ignore, succeed, errors, resultItems) ==
  IF items = <<>>
  THEN [succeed |-> succeed, failed |-> Len(errors), errors |-> errors,
        items |-> resultItems]
  ELSE LET info == InfoOf(Head(items))
       IN IF Truthy(info.result)
          THEN BulkLoop(Tail(items), ignore, succeed + 1, errors, Append(resultItems, info))
          ELSE IF /\ info.error.defined
                  /\ ~ignore.defined \/ info.status \notin ignore.statuses
          THEN BulkLoop(Tail(items), ignore, succeed,
                        Append(errors, info.error.type \o <<" ", "-", " ">> \o info.error.reason),
                        Append(resultItems, info))
          ELSE BulkLoop(Tail(items), ignore, succeed, errors, Append(resultItems, info))

\* a bulk that takes no notice of options.ignore
BulkOf_IgnoreNothing(items, ignore) ==
  [succeed |-> Len(SelectSeq(items, LAMBDA item : Truthy(InfoOf(item).result))),
   failed |-> Len(SelectSeq(items, LAMBDA item : ~Truthy(InfoOf(item).result)
                                                  /\ InfoOf(item).error.defined)),
   errors |-> LET bad == SelectSeq(items, LAMBDA item : ~Truthy(InfoOf(item).result)
                                                         /\ InfoOf(item).error.defined)
              IN [i \in 1..Len(bad) |-> InfoOf(bad[i]).error.type \o <<" ", "-", " ">>
                                           \o InfoOf(bad[i]).error.reason],
   items |-> [i \in 1..Len(items) |-> InfoOf(items[i])]]

\* bulk from the answer of client.bulk on: the loop over res.body.items, from
\* succeed = 0 and no errors
BulkOf(items, ignore) == BulkLoop(items, ignore, 0, <<>>, <<>>)

----------------------------------------------------------------------------
(* Inputs *)

MaxSeq == 1

PropNames == {<<"a">>, <<"b">>, <<"B">>}

IdOptions == {[hasSeq |-> FALSE, seq |-> 0]} \cup {[hasSeq |-> TRUE, seq |-> n] : n \in 0..MaxSeq}

IdValues == {JsStr(<<"a">>), JsStr(<<"b">>), JsUndefined, JsNull}

Delimiters == {JsUndefined, JsStr(<<":", ":">>), JsStr(<<>>)}

Declarations == [prop : PropNames, options : IdOptions]

\* the id declarations of a type: distinct properties, in declaration order
EntityTypes ==
  UNION {{t \in [1..k -> Declarations] : \A i, j \in 1..k : i # j => t[i].prop # t[j].prop}
         : k \in 0..Cardinality(PropNames)}

DeclaredProps(t) == {t[i].prop : i \in 1..Len(t)}

Entities ==
  UNION {{[idProps |-> t, values |-> v] : v \in [DeclaredProps(t) -> IdValues]} : t \in EntityTypes}

\* id values of which one contains the default delimiter
DelimitedValues == {JsStr(<<"a">>), JsStr(<<"a", "-", "a">>)}

\* MultiPropIdEntity, two id properties without seq, over the delimited values
MultiPropIdEntities ==
  {[idProps |-> <<[prop |-> <<"a">>, options |-> [hasSeq |-> FALSE, seq |-> 0]],
                  [prop |-> <<"b">>, options |-> [hasSeq |-> FALSE, seq |-> 0]]>>,
    values |-> v] : v \in [{<<"a">>, <<"b">>} -> DelimitedValues]}

Prefixes == {<<"t", "e", "s", "t", "_">>, <<>>}

\* a period type the repository does not handle stands for all of them
SplitPeriodTypes == PeriodTypes \cup {"HOURLY"}

\* instants around the ends of days, months and years at +09:00
GridTimes ==
  { 1577717999,   \* 2019-12-30 23:59:59 +09:00
    1577718000,   \* 2019-12-31 00:00:00
    1577804400,   \* 2020-01-01 00:00:00
    1577836799,   \* 2020-01-01 08:59:59, still 2019-12-31 in UTC
    1580439600,   \* 2020-01-31 12:00:00
    1580482800,   \* 2020-02-01 00:00:00
    1582988399,   \* 2020-02-29 23:59:59
    1582988400,   \* 2020-03-01 00:00:00
    1609426799,   \* 2020-12-31 23:59:59
    1609426800,   \* 2021-01-01 00:00:00
    1615770000,   \* 2021-03-15 10:00:00
    1640962799,   \* 2021-12-31 23:59:59
    1640962800 }  \* 2022-01-01 00:00:00

\* the ranges of test/unit/index-selector-by-time-range, with their period type
TestRanges ==
  { <<1561161600, 1561161600, "DAILY">>,     \* 2019-06-22 09:00 .. same
    <<1561161600, 1561301999, "DAILY">>,     \* .. 2019-06-23 23:59:59
    <<1559347200, 1562025599, "DAILY">>,     \* 2019-06-01 09:00 .. 2019-07-02 08:59:59
    <<1546300800, 1578009599, "DAILY">>,     \* 2019-01-01 09:00 .. 2020-01-03 08:59:59
    <<1583766000, 1736434800, "DAILY">>,     \* 2020-03-10 00:00 .. 2025-01-10 00:00
    <<1561161600, 1561301999, "MONTHLY">>,
    <<1561161600, 1623488400, "MONTHLY">>,   \* 2019-06-22 .. 2021-06-12 18:00
    <<1561161600, 1640919600, "MONTHLY">>,   \* 2019-06-22 .. 2021-12-31 12:00
    <<1561161600, 1561301999, "YEARLY">>,
    <<1561161600, 1876780800, "YEARLY">> }   \* 2019-06-22 .. 2029-06-22 09:00

RangeCalls ==
  {[prefix |-> p, startAt |-> s, endAt |-> e, splitPeriodType |-> g, enableGroupSelect |-> b]
     : p \in Prefixes, s \in GridTimes, e \in GridTimes, g \in SplitPeriodTypes, b \in BOOLEAN}
  \cup
  {[prefix |-> <<"t", "e", "s", "t", "_">>, startAt |-> r[1], endAt |-> r[2],
    splitPeriodType |-> r[3], enableGroupSelect |-> b] : r \in TestRanges, b \in BOOLEAN}

\* offsets, in hours, of the time zone of the host
HostOffsets == {-5, 0, 9}

\* the store keeps at most this many documents
MaxDocs == 1

WriteValues == {JsStr(<<"a">>), JsStr(<<>>), JsUndefined, JsNull}

IdOf(prop, options) == [prop |-> prop, options |-> options]

NoOptions == [hasSeq |-> FALSE, seq |-> 0]

SeqOption(n) == [hasSeq |-> TRUE, seq |-> n]

\* entity types of the write operations: the id declarations, the routing property, the
\* excluded properties, the values each stored field takes, and for a getter the field
\* it returns
WriteTypes ==
  {\* no decorator at all
   [idProps |-> <<>>, routingProp |-> JsUndefined, excluded |-> {},
    fields |-> [f \in {<<"d">>} |-> {JsStr(<<"a">>)}], getters |-> <<>>],
   \* SimpleEntity
   [idProps |-> <<IdOf(<<"a">>, NoOptions)>>, routingProp |-> JsUndefined, excluded |-> {},
    fields |-> [f \in {<<"a">>} |-> {JsStr(<<"a">>), JsStr(<<>>), JsUndefined}],
    getters |-> <<>>],
   \* RoutedEntity
   [idProps |-> <<IdOf(<<"a">>, NoOptions)>>, routingProp |-> JsStr(<<"g">>), excluded |-> {},
    fields |-> [f \in {<<"a">>, <<"g">>} |->
                  IF f = <<"a">> THEN {JsStr(<<"a">>), JsStr(<<>>)} ELSE WriteValues],
    getters |-> <<>>],
   \* a routing property and no id
   [idProps |-> <<>>, routingProp |-> JsStr(<<"g">>), excluded |-> {},
    fields |-> [f \in {<<"g">>} |-> {JsStr(<<"a">>), JsUndefined}], getters |-> <<>>],
   \* ExcludedMultiPropIdEntity
   [idProps |-> <<IdOf(<<"a">>, SeqOption(1)), IdOf(<<"b">>, SeqOption(0))>>,
    routingProp |-> JsUndefined, excluded |-> {<<"a">>, <<"b">>},
    fields |-> [f \in {<<"a">>, <<"b">>} |->
                  IF f = <<"a">> THEN {JsStr(<<"a">>)} ELSE {JsStr(<<"a">>), JsUndefined}],
    getters |-> <<>>],
   \* DynamicIdEntity: the getters a and g return the fields e and r
   [idProps |-> <<IdOf(<<"a">>, NoOptions)>>, routingProp |-> JsStr(<<"g">>),
    excluded |-> {<<"a">>, <<"g">>},
    fields |-> [f \in {<<"e">>, <<"r">>} |-> {JsStr(<<"a">>), JsStr(<<>>)}],
    getters |-> [p \in {<<"a">>, <<"g">>} |-> IF p = <<"a">> THEN <<"e">> ELSE <<"r">>]]}

\* the assignments of values to the stored fields of a type
FieldValues(t) == {v \in [DOMAIN t.fields -> WriteValues] : \A f \in DOMAIN t.fields : v[f] \in t.fields[f]}

\* an entity of a type: the current value of each property, a getter's computed from its field
EntityOfType(t, v) ==
  [idProps |-> t.idProps, routingProp |-> t.routingProp, excluded |-> t.excluded,
   values |-> [p \in DOMAIN t.fields \cup DOMAIN t.getters |->
                 IF p \in DOMAIN t.getters THEN v[t.getters[p]] ELSE v[p]]]

WriteEntities == UNION {{EntityOfType(t, v) : v \in FieldValues(t)} : t \in WriteTypes}

\* the entities passed to upsertEntity and updateEntity: those of SimpleEntity
PatchEntities ==
  {e \in WriteEntities : e.excluded = {} /\ e.idProps # <<>> /\ e.routingProp = JsUndefined}

Indexes == {"test"}

\* ids and routings a caller passes to the operations that take them as arguments
CallerIds == {<<"a">>, <<"#", "1">>}

CallerRoutings == {JsUndefined, JsStr(<<"a">>), JsStr(<<>>)}

EntityClasses == {t.excluded : t \in WriteTypes}

\* client options: lists of properties in insertion order
Property(key, value) == [key |-> key, value |-> value]

Targets ==
  {<<Property("node", JsStr(<<"1">>))>>,
   <<Property("node", JsStr(<<"2">>))>>,
   <<Property("node", JsStr(<<"1">>)), Property("name", JsUndefined)>>,
   <<Property("node", JsStr(<<"1">>)), Property("name", JsStr(<<"n">>))>>,
   <<Property("name", JsStr(<<"n">>)), Property("node", JsStr(<<"1">>))>>}

\* at most this many calls of scroll() are in flight
MaxCalls == 2

\* a scroller sends at most this many searches and scrolls
MaxRequests == 3

\* the arguments a Scroller is constructed with: the defaults ('10m', true, false),
\* one without the cleanup, one with another keep-alive and the document metadata
ScrollerArguments ==
  {[alive |-> "10m", autoClealup |-> TRUE, includeDocumentMeta |-> FALSE],
   [alive |-> "10m", autoClealup |-> FALSE, includeDocumentMeta |-> FALSE],
   [alive |-> "1m", autoClealup |-> TRUE, includeDocumentMeta |-> TRUE]}

\* res.body.hits.hits: a page without hits or with one
Pages ==
  {<<>>,
   <<[_id |-> JsStr(<<"1">>), _index |-> JsStr(<<"t">>), _routing |-> JsUndefined,
      _source |-> (<<"data">> :> JsStr(<<"a">>))]>>}

\* the bodies the store may answer the initial search sent as the n-th request with:
\* a new search context or none
SearchBodies(n) == [_scroll_id : {ScrollIdOf(n), JsUndefined}, hits : Pages]

\* bucketName: the name of a composite aggregation, or the names of an aggregation
\* and of the composite aggregation inside it
BucketNames == {<<"b">>, <<"p", "b">>}

\* a search with a composite aggregation at the bucket name, without an after key
DslOf(bucketName) ==
  IF Len(bucketName) = 1
  THEN [body |-> [aggs |-> (bucketName[1] :> [composite |-> [after |-> JsUndefined]])]]
  ELSE [body |-> [aggs |-> (bucketName[1] :>
         [aggs |-> (bucketName[2] :> [composite |-> [after |-> JsUndefined]])])]]

\* the after keys of the pages of the store: JavaScript objects, named by what they hold
AfterKeys == {[t |-> "object", s |-> <<"1">>], [t |-> "object", s |-> <<"2">>]}

\* the bodies the store may answer a search with: the aggregation at the bucket
\* name, with the after key of the page or, behind the last bucket, without one
AggBodies(bucketName) ==
  {IF Len(bucketName) = 1
   THEN [aggregations |-> (bucketName[1] :> [after_key |-> key])]
   ELSE [aggregations |-> (bucketName[1] :> (bucketName[2] :> [after_key |-> key]))]
     : key \in AfterKeys \cup {JsUndefined}}

\* a bulk response has at most this many items
MaxItems == 2

\* the items of a bulk response: written, not found by a delete, a conflict, a
\* missing document, one with neither result nor error, one with both
BulkItems ==
  LET noError == [defined |-> FALSE, type |-> <<>>, reason |-> <<>>]
      Error(type, reason) == [defined |-> TRUE, type |-> type, reason |-> reason]
  IN {[index |-> [result |-> JsStr(<<"c">>), status |-> 201, error |-> noError]],
      [delete |-> [result |-> JsStr(<<"n">>), status |-> 404, error |-> noError]],
      [create |-> [result |-> JsUndefined, status |-> 409, error |-> Error(<<"v">>, <<"x">>)]],
      [update |-> [result |-> JsUndefined, status |-> 404, error |-> Error(<<"m">>, <<"y">>)]],
      [index |-> [result |-> JsUndefined, status |-> 500, error |-> noError]],
      [update |-> [result |-> JsStr(<<"u">>), status |-> 200, error |-> Error(<<"w">>, <<"z">>)]]}

\* res.body.items
BulkResponses == UNION {[1..n -> BulkItems] : n \in 0..MaxItems}

\* options.ignore: absent, or an array of statuses
Ignores ==
  {[defined |-> FALSE, statuses |-> {}]}
  \cup {[defined |-> TRUE, statuses |-> s] : s \in SUBSET {404, 409}}

----------------------------------------------------------------------------
(* The repository as a state machine: one call at a time *)

NoMoment == [unix |-> 0, milli |-> 0, offset |-> 0]

NoArgs ==
  [entity |-> [idProps |-> <<>>, values |-> <<>>], delimiter |-> JsUndefined,
   prefix |-> <<>>, startAt |-> 0, endAt |-> 0, splitPeriodType |-> "",
   enableGroupSelect |-> FALSE, hostOffset |-> 0,
   index |-> "", id |-> <<>>, routing |-> JsUndefined, entityClass |-> {}, target |-> <<>>,
   ignore |-> [defined |-> FALSE, statuses |-> {}], items |-> <<>>]

NoResult == [kind |-> "none", value |-> <<>>, error |-> ""]

Init ==
  /\ pc = "idle"
  /\ op = "none"
  /\ args = NoArgs
  /\ cursor = NoMoment
  /\ endAtDate = NoMoment
  /\ suffexes = <<>>
  /\ result = NoResult
  /\ request = NoRequest
  /\ store = <<>>
  /\ handlers = <<>>
  /\ clients = 0
  /\ scroller = NoScroller
  /\ compositeAggScroller = NoCompositeAggScroller
  /\ calls = <<>>
  /\ cleanups = 0
  /\ wire = <<>>
  /\ responses = <<>>

\* entityId({ entity, delimiter })
EntityId ==
  /\ pc = "idle"
  /\ \E entity \in Entities \cup MultiPropIdEntities, delimiter \in Delimiters :
       /\ args' = [NoArgs EXCEPT !.entity = entity, !.delimiter = delimiter]
       /\ result' = [kind |-> "return", value |-> EntityIdOf(entity, delimiter), error |-> ""]
  /\ op' = "entityId"
  /\ pc' = "done"
  /\ UNCHANGED <<cursor, endAtDate, suffexes, request, store, handlers, clients, scrolling>>

\* indexesByTimeRange up to the first test of a loop condition, on a host whose time
\* zone is at hostOffset
IndexesByTimeRange ==
  /\ pc = "idle"
  /\ \E call \in RangeCalls, hostOffset \in HostOffsets :
       /\ args' = [NoArgs EXCEPT !.prefix = call.prefix, !.startAt = call.startAt,
                                 !.endAt = call.endAt,
                                 !.splitPeriodType = call.splitPeriodType,
                                 !.enableGroupSelect = call.enableGroupSelect]
       /\ IF InvalidTimeRange(call.startAt, call.endAt)
          THEN /\ result' = [kind |-> "throw", value |-> <<>>, error |-> "InvalidTimeRangeError"]
               /\ pc' = "done"
               /\ UNCHANGED <<cursor, endAtDate>>
          ELSE IF call.splitPeriodType \in PeriodTypes
          THEN /\ cursor' = StartOf(UtcOffset(MomentUnix(call.startAt, hostOffset), UtcOffsetHours),
                                    AlignUnit(call.splitPeriodType))
               /\ endAtDate' = EndOf(UtcOffset(MomentUnix(call.endAt, hostOffset), UtcOffsetHours),
                                     AlignUnit(call.splitPeriodType))
               /\ pc' = "loop"
               /\ UNCHANGED result
          ELSE /\ result' = [kind |-> "throw", value |-> <<>>, error |-> "RangeError"]
               /\ pc' = "done"
               /\ UNCHANGED <<cursor, endAtDate>>
  /\ op' = "indexesByTimeRange"
  /\ UNCHANGED <<suffexes, request, store, handlers, clients, scrolling>>

\* one iteration of the while loop of the period type
LoopIteration ==
  /\ pc = "loop"
  /\ LoopCondition(cursor, endAtDate)
  /\ LET body == LoopBody(cursor, endAtDate, args.splitPeriodType, args.enableGroupSelect)
     IN /\ suffexes' = Append(suffexes, body.suffix)
        /\ cursor' = body.cursor
  /\ UNCHANGED <<pc, op, args, endAtDate, result, request, store, handlers, clients, scrolling>>

\* the loop condition fails: return [...new Set(suffexes)].map(v => prefix + v)
LoopExit ==
  /\ pc = "loop"
  /\ ~LoopCondition(cursor, endAtDate)
  /\ result' = [kind |-> "return", value |-> FinalIndexes(args.prefix, suffexes), error |-> ""]
  /\ pc' = "done"
  /\ UNCHANGED <<op, args, cursor, endAtDate, suffexes, request, store, handlers, clients, scrolling>>

\* periodIndexName(prefix, timestamp, period)
PeriodIndexName ==
  /\ pc = "idle"
  /\ \E prefix \in Prefixes, timestamp \in GridTimes, period \in SplitPeriodTypes,
        hostOffset \in HostOffsets :
       /\ args' = [NoArgs EXCEPT !.prefix = prefix, !.startAt = timestamp,
                                 !.splitPeriodType = period, !.hostOffset = hostOffset]
       /\ result' = PeriodIndexNameOf(prefix, timestamp, period, hostOffset)
  /\ op' = "periodIndexName"
  /\ pc' = "done"
  /\ UNCHANGED <<cursor, endAtDate, suffexes, request, store, handlers, clients, scrolling>>

\* the caller has taken the result; the repository is ready for the next call
Return ==
  /\ pc = "done"
  /\ pc' = "idle"
  /\ op' = "none"
  /\ args' = NoArgs
  /\ cursor' = NoMoment
  /\ endAtDate' = NoMoment
  /\ suffexes' = <<>>
  /\ result' = NoResult
  /\ request' = NoRequest
  /\ UNCHANGED <<store, handlers, clients, scrolling>>

\* routingId({ entity })
RoutingId ==
  /\ pc = "idle"
  /\ \E entity \in WriteEntities :
       /\ args' = [NoArgs EXCEPT !.entity = entity]
       /\ result' = [kind |-> "return", value |-> RoutingIdOf(entity), error |-> ""]
  /\ op' = "routingId"
  /\ pc' = "done"
  /\ UNCHANGED <<cursor, endAtDate, suffexes, request, store, handlers, clients, scrolling>>

Next ==
  \/ EntityId
  \/ RoutingId
  \/ IndexesByTimeRange
  \/ LoopIteration
  \/ LoopExit
  \/ PeriodIndexName
  \/ Return

Spec == Init /\ [][Next]_vars

----------------------------------------------------------------------------
(* The operations that talk to the store, one call at a time *)

\* createEntity({ entity, index })
CreateEntity ==
  /\ pc = "idle"
  /\ \E entity \in WriteEntities, index \in Indexes :
       /\ args' = [NoArgs EXCEPT !.entity = entity, !.index = index]
       /\ IF ~Truthy(EntityIdOf(entity, JsUndefined))
          THEN /\ result' = [kind |-> "throw", value |-> <<>>, error |-> "Error"]
               /\ UNCHANGED <<request, store>>
          ELSE /\ request' = CreateParams(entity, index)
               /\ \E o \in ClientCreate(store, CreateParams(entity, index)) :
                    /\ Cardinality(DOMAIN o.docs) <= MaxDocs
                    /\ store' = o.docs
                    /\ result' = o.response
  /\ op' = "createEntity"
  /\ pc' = "done"
  /\ UNCHANGED <<cursor, endAtDate, suffexes, handlers, clients, scrolling>>

\* indexEntity({ entity, index })
IndexEntity ==
  /\ pc = "idle"
  /\ \E entity \in WriteEntities, index \in Indexes :
       /\ args' = [NoArgs EXCEPT !.entity = entity, !.index = index]
       /\ request' = IndexParams(entity, index)
       /\ \E o \in ClientIndex(store, IndexParams(entity, index)) :
            /\ Cardinality(DOMAIN o.docs) <= MaxDocs
            /\ store' = o.docs
            /\ result' = o.response
  /\ op' = "indexEntity"
  /\ pc' = "done"
  /\ UNCHANGED <<cursor, endAtDate, suffexes, handlers, clients, scrolling>>

\* entity({ entityClass, id, index, routing })
EntityRead ==
  /\ pc = "idle"
  /\ \E entityClass \in EntityClasses, id \in CallerIds, index \in Indexes,
        routing \in CallerRoutings :
       /\ args' = [NoArgs EXCEPT !.entityClass = entityClass, !.id = id, !.index = index,
                                 !.routing = routing]
       /\ request' = GetParams(index, id, routing)
       /\ \E body \in ClientGet(store, GetParams(index, id, routing)) :
            result' = EntityOf(entityClass, body)
  /\ op' = "entity"
  /\ pc' = "done"
  /\ UNCHANGED <<cursor, endAtDate, suffexes, store, handlers, clients, scrolling>>

\* entityWithMetadata({ entityClass, id, index, routing })
EntityWithMetadata ==
  /\ pc = "idle"
  /\ \E entityClass \in EntityClasses, id \in CallerIds, index \in Indexes,
        routing \in CallerRoutings :
       /\ args' = [NoArgs EXCEPT !.entityClass = entityClass, !.id = id, !.index = index,
                                 !.routing = routing]
       /\ request' = GetParams(index, id, routing)
       /\ \E body \in ClientGet(store, GetParams(index, id, routing)) :
            result' = EntityWithMetadataOf(entityClass, body)
  /\ op' = "entityWithMetadata"
  /\ pc' = "done"
  /\ UNCHANGED <<cursor, endAtDate, suffexes, store, handlers, clients, scrolling>>

\* upsertEntity({ id, entity, index, routing })
UpsertEntity ==
  /\ pc = "idle"
  /\ \E id \in CallerIds, entity \in PatchEntities, index \in Indexes,
        routing \in CallerRoutings :
       /\ args' = [NoArgs EXCEPT !.id = id, !.entity = entity, !.index = index,
                                 !.routing = routing]
       /\ request' = UpsertParams(id, entity, index, routing)
       /\ \E o \in ClientUpdate(store, UpsertParams(id, entity, index, routing)) :
            /\ Cardinality(DOMAIN o.docs) <= MaxDocs
            /\ store' = o.docs
            /\ result' = o.response
  /\ op' = "upsertEntity"
  /\ pc' = "done"
  /\ UNCHANGED <<cursor, endAtDate, suffexes, handlers, clients, scrolling>>

\* updateEntity({ id, entity, index, routing })
UpdateEntity ==
  /\ pc = "idle"
  /\ \E id \in CallerIds, entity \in PatchEntities, index \in Indexes,
        routing \in CallerRoutings :
       /\ args' = [NoArgs EXCEPT !.id = id, !.entity = entity, !.index = index,
                                 !.routing = routing]
       /\ request' = UpdateParams(id, entity, index, routing)
       /\ \E o \in ClientUpdate(store, UpdateParams(id, entity, index, routing)) :
            /\ store' = o.docs
            /\ result' = o.response
  /\ op' = "updateEntity"
  /\ pc' = "done"
  /\ UNCHANGED <<cursor, endAtDate, suffexes, handlers, clients, scrolling>>

\* deleteEntity({ id, index, routing })
DeleteEntity ==
  /\ pc = "idle"
  /\ \E id \in CallerIds, index \in Indexes, routing \in CallerRoutings :
       /\ args' = [NoArgs EXCEPT !.id = id, !.index = index, !.routing = routing]
       /\ request' = DeleteParams(id, index, routing)
       /\ \E o \in ClientDelete(store, DeleteParams(id, index, routing)) :
            /\ store' = o.docs
            /\ result' = o.response
  /\ op' = "deleteEntity"
  /\ pc' = "done"
  /\ UNCHANGED <<cursor, endAtDate, suffexes, handlers, clients, scrolling>>

StoreNext ==
  \/ CreateEntity
  \/ IndexEntity
  \/ EntityRead
  \/ EntityWithMetadata
  \/ UpsertEntity
  \/ UpdateEntity
  \/ DeleteEntity
  \/ Return

StoreSpec == Init /\ [][StoreNext]_vars

----------------------------------------------------------------------------
(* The cache of clients *)

\* EsClient.instance(target)
Instance ==
  /\ pc = "idle"
  /\ \E target \in Targets :
       LET made == InstanceOf(handlers, clients, target)
       IN /\ args' = [NoArgs EXCEPT !.target = target]
          /\ handlers' = made.handlers
          /\ clients' = made.clients
          /\ result' = [kind |-> "return", value |-> made.client, error |-> ""]
  /\ op' = "instance"
  /\ pc' = "done"
  /\ UNCHANGED <<cursor, endAtDate, suffexes, request, store, scrolling>>

\* new EsRepository({ esClientOptions }) of a subclass with its defaultEsClientOptions
Constructor ==
  /\ pc = "idle"
  /\ \E given \in BOOLEAN, esClientOptions \in Targets, defaultEsClientOptions \in Targets :
       LET target == IF given THEN esClientOptions ELSE defaultEsClientOptions
           made == InstanceOf(handlers, clients, target)
       IN /\ args' = [NoArgs EXCEPT !.target = target]
          /\ handlers' = made.handlers
          /\ clients' = made.clients
          /\ result' = [kind |-> "return", value |-> made.client, error |-> ""]
  /\ op' = "constructor"
  /\ pc' = "done"
  /\ UNCHANGED <<cursor, endAtDate, suffexes, request, store, scrolling>>

ClientNext ==
  \/ Instance
  \/ Constructor
  \/ Return

ClientSpec == Init /\ [][ClientNext]_vars

----------------------------------------------------------------------------
(* The Scroller and its caller.  The caller calls scroll() whenever it     *)
(* likes, also while earlier calls wait; the client answers in any order.  *)

\* new Scroller(client, dsl, alive, autoClealup, includeDocumentMeta)
NewScroller ==
  /\ scroller = NoScroller
  /\ compositeAggScroller = NoCompositeAggScroller
  /\ \E given \in ScrollerArguments :
       scroller' = [scrollId |-> JsUndefined, alive |-> given.alive,
                    autoClealup |-> given.autoClealup,
                    includeDocumentMeta |-> given.includeDocumentMeta]
  /\ UNCHANGED <<pc, op, args, cursor, endAtDate, suffexes, result, request, store,
                 handlers, clients, compositeAggScroller, calls, cleanups, wire, responses>>

\* scroll() from its call to its await
Scroll ==
  /\ scroller # NoScroller
  /\ Len(calls) < MaxCalls
  /\ Len(SelectSeq(wire, LAMBDA sent : sent.api # "clearScroll")) < MaxRequests
  /\ wire' = Append(wire, ScrollRequest(scroller))
  /\ calls' = Started(calls, ScrollRequest(scroller).api, Len(wire) + 1)
  /\ UNCHANGED <<pc, op, args, cursor, endAtDate, suffexes, result, request, store,
                 handlers, clients, scroller, compositeAggScroller, cleanups, responses>>

\* the initial search of a call is answered: scroll() runs to its end
SearchResponse ==
  /\ \E i \in 1..Len(calls) :
       /\ calls[i].awaits = "search"
       /\ \E body \in SearchBodies(calls[i].request) :
            LET done == OnSearch(scroller, body)
            IN /\ scroller' = done.scroller
               /\ wire' = wire \o done.sent
               /\ cleanups' = cleanups + Len(done.sent)
               /\ result' = [kind |-> "return", value |-> done.value, error |-> ""]
               /\ responses' = Append(responses, [status |-> "resolved", body |-> body])
       /\ calls' = Without(calls, i)
  /\ UNCHANGED <<pc, op, args, cursor, endAtDate, suffexes, request, store,
                 handlers, clients, compositeAggScroller>>

\* the scroll of a call is answered: scroll() runs to its end
ScrollResponse ==
  /\ \E i \in 1..Len(calls) :
       /\ calls[i].awaits = "scroll"
       /\ \E body \in [_scroll_id : {wire[calls[i].request].scroll_id}, hits : Pages] :
            LET done == Deliver(scroller, body.hits)
            IN /\ wire' = wire \o done.sent
               /\ cleanups' = cleanups + Len(done.sent)
               /\ result' = [kind |-> "return", value |-> done.value, error |-> ""]
               /\ responses' = Append(responses, [status |-> "resolved", body |-> body])
       /\ calls' = Without(calls, i)
  /\ UNCHANGED <<pc, op, args, cursor, endAtDate, suffexes, request, store,
                 handlers, clients, scroller, compositeAggScroller>>

\* the client rejects the search or the scroll of a call: scroll() throws
ScrollRejected ==
  /\ \E i \in 1..Len(calls) :
       /\ calls[i].awaits \in {"search", "scroll"}
       /\ calls' = Without(calls, i)
  /\ scroller # NoScroller
  /\ result' = [kind |-> "throw", value |-> NoPayload, error |-> "ResponseError"]
  /\ responses' = Append(responses, [status |-> "rejected", body |-> <<>>])
  /\ UNCHANGED <<pc, op, args, cursor, endAtDate, suffexes, request, store,
                 handlers, clients, scroller, compositeAggScroller, cleanups, wire>>

\* clearScroll of a cleanup is answered or rejected: try { await ... } catch (e) {},
\* then this.scrollId = ''
ClearScrollResponse ==
  /\ cleanups > 0
  /\ cleanups' = cleanups - 1
  /\ scroller' = [scroller EXCEPT !.scrollId = JsStr(<<>>)]
  /\ UNCHANGED <<pc, op, args, cursor, endAtDate, suffexes, result, request, store,
                 handlers, clients, compositeAggScroller, calls, wire, responses>>

ScrollerNext ==
  \/ NewScroller
  \/ Scroll
  \/ SearchResponse
  \/ ScrollResponse
  \/ ScrollRejected
  \/ ClearScrollResponse

ScrollerSpec == Init /\ [][ScrollerNext]_vars

----------------------------------------------------------------------------
(* The CompositeAggScroller and its caller *)

\* scroll() returns undefined
NoRes == [defined |-> FALSE, res |-> <<>>]

\* new CompositeAggScroller(client, bucketName, dsl)
NewCompositeAggScroller ==
  /\ scroller = NoScroller
  /\ compositeAggScroller = NoCompositeAggScroller
  /\ \E bucketName \in BucketNames :
       compositeAggScroller' =
         [bucketName |-> bucketName, dsl |-> DslOf(bucketName), afterKey |-> JsUndefined]
  /\ UNCHANGED <<pc, op, args, cursor, endAtDate, suffexes, result, request, store,
                 handlers, clients, scroller, calls, cleanups, wire, responses>>

\* scroll() from its call to its await, or to its return at the end of the list
CompositeAggScroll ==
  /\ compositeAggScroller # NoCompositeAggScroller
  /\ LET step == AggScrollStep(compositeAggScroller)
     IN IF step.returns
        THEN /\ result' = [kind |-> "return", value |-> NoRes, error |-> ""]
             /\ UNCHANGED <<compositeAggScroller, calls, wire>>
        ELSE /\ Len(calls) < MaxCalls
             /\ Len(wire) < MaxRequests
             /\ wire' = wire \o step.sent
             /\ calls' = Started(calls, "search", Len(wire) + 1)
             /\ compositeAggScroller' = [compositeAggScroller EXCEPT !.dsl = step.dsl]
             /\ UNCHANGED result
  /\ UNCHANGED <<pc, op, args, cursor, endAtDate, suffexes, request, store,
                 handlers, clients, scroller, cleanups, responses>>

\* the search of a call is answered: the after key is kept and the answer returned
CompositeAggResponse ==
  /\ compositeAggScroller # NoCompositeAggScroller
  /\ \E i \in 1..Len(calls) :
       /\ calls' = Without(calls, i)
       /\ \E body \in AggBodies(compositeAggScroller.bucketName) :
            /\ compositeAggScroller' =
                 [compositeAggScroller EXCEPT
                    !.afterKey = NextAfterKey(body, compositeAggScroller.bucketName)]
            /\ result' = [kind |-> "return", value |-> [defined |-> TRUE, res |-> body],
                          error |-> ""]
            /\ responses' = Append(responses, [status |-> "resolved", body |-> body])
  /\ UNCHANGED <<pc, op, args, cursor, endAtDate, suffexes, request, store,
                 handlers, clients, scroller, cleanups, wire>>

\* the client rejects the search of a call: scroll() throws
CompositeAggRejected ==
  /\ compositeAggScroller # NoCompositeAggScroller
  /\ \E i \in 1..Len(calls) : calls' = Without(calls, i)
  /\ result' = [kind |-> "throw", value |-> NoRes, error |-> "ResponseError"]
  /\ responses' = Append(responses, [status |-> "rejected", body |-> <<>>])
  /\ UNCHANGED <<pc, op, args, cursor, endAtDate, suffexes, request, store,
                 handlers, clients, scroller, compositeAggScroller, cleanups, wire>>

CompositeAggNext ==
  \/ NewCompositeAggScroller
  \/ CompositeAggScroll
  \/ CompositeAggResponse
  \/ CompositeAggRejected

CompositeAggSpec == Init /\ [][CompositeAggNext]_vars

----------------------------------------------------------------------------
(* bulk, one call at a time *)

\* bulk(args, options): client.bulk is rejected, or answers with the items of
\* res.body.items
Bulk ==
  /\ pc = "idle"
  /\ \E ignore \in Ignores, items \in BulkResponses, rejected \in BOOLEAN :
       /\ rejected => items = <<>>
       /\ args' = [NoArgs EXCEPT !.ignore = ignore, !.items = items]
       /\ result' = IF rejected THEN ResponseError
                    ELSE [kind |-> "return", value |-> BulkOf(items, ignore),
                          error |-> ""]
  /\ op' = "bulk"
  /\ pc' = "done"
  /\ UNCHANGED <<cursor, endAtDate, suffexes, request, store, handlers, clients, scrolling>>

BulkNext ==
  \/ Bulk
  \/ Return

BulkSpec == Init /\ [][BulkNext]_vars

----------------------------------------------------------------------------
(* Calendar units, as the properties speak of them.  A unit is numbered:   *)
(* a day by its day number at +09:00, a month by 12 * year + month - 1, a  *)
(* year by its number.                                                     *)

DayIndex(t) == (t + 32400) \div 86400

MonthIndexOf(f) == f.year * 12 + f.month - 1

MonthIndexOfDay(day) == MonthIndexOf(CivilFromDays(day))

UnitIndex(t, g) ==
  CASE g = "DAILY" -> DayIndex(t)
    [] g = "MONTHLY" -> MonthIndexOfDay(DayIndex(t))
    [] g = "YEARLY" -> CivilFromDays(DayIndex(t)).year

FirstDayOfMonth(mi) == DaysFromCivil(mi \div 12, (mi % 12) + 1, 1)

LastDayOfMonth(mi) == FirstDayOfMonth(mi + 1) - 1

\* the first and the last unit of year y
FirstUnitOfYear(y, g) == IF g = "DAILY" THEN FirstDayOfMonth(12 * y) ELSE 12 * y

LastUnitOfYear(y, g) == IF g = "DAILY" THEN LastDayOfMonth(12 * y + 11) ELSE 12 * y + 11

\* the instant a unit starts at, in epoch seconds
UnitStart(idx, g) ==
  CASE g = "DAILY" -> idx * 86400 - 32400
    [] g = "MONTHLY" -> FirstDayOfMonth(idx) * 86400 - 32400
    [] g = "YEARLY" -> FirstDayOfMonth(12 * idx) * 86400 - 32400

DayLabel(f) == Pad4(f.year) \o <<".">> \o Pad2(f.month) \o <<".">> \o Pad2(f.date)

\* the concrete label of a unit
UnitLabel(idx, g) ==
  CASE g = "DAILY" -> DayLabel(CivilFromDays(idx))
    [] g = "MONTHLY" -> Pad4(idx \div 12) \o <<".">> \o Pad2((idx % 12) + 1)
    [] g = "YEARLY" -> Pad4(idx)

YearGroupLabel(y) == Pad4(y) \o <<".", "*">>

MonthGroupLabel(mi) == Pad4(mi \div 12) \o <<".">> \o Pad2((mi % 12) + 1) \o <<".", "*">>

\* the concrete tokens of the units first..last
UnitTokens(prefix, first, last, g) ==
  [i \in 1..(last - first + 1) |-> prefix \o UnitLabel(first + i - 1, g)]

\* one concrete token per unit from the unit of startAt to the unit of endAt
ConcreteSpan(prefix, startAt, endAt, g) ==
  UnitTokens(prefix, UnitIndex(startAt, g), UnitIndex(endAt, g), g)

DigitValue(c) == CHOOSE n \in 0..9 : Digit(n) = c

Number(chars) ==
  IF Len(chars) = 4
  THEN DigitValue(chars[1]) * 1000 + DigitValue(chars[2]) * 100
       + DigitValue(chars[3]) * 10 + DigitValue(chars[4])
  ELSE DigitValue(chars[1]) * 10 + DigitValue(chars[2])

IsGroupToken(suffix) == Len(suffix) > 0 /\ suffix[Len(suffix)] = "*"

\* the concrete tokens of the period a token names
ExpandToken(token, prefix, g) ==
  LET suffix == SubSeq(token, Len(prefix) + 1, Len(token))
      y == Number(SubSeq(suffix, 1, 4))
  IN IF ~IsGroupToken(suffix) THEN <<token>>
     ELSE IF Len(suffix) = 6
     THEN UnitTokens(prefix, FirstUnitOfYear(y, g), LastUnitOfYear(y, g), g)
     ELSE LET mi == 12 * y + Number(SubSeq(suffix, 6, 7)) - 1
          IN UnitTokens(prefix, FirstDayOfMonth(mi), LastDayOfMonth(mi), g)

RECURSIVE ExpandTokens(_, _, _)
ExpandTokens(tokens, prefix, g) ==
  IF tokens = <<>> THEN <<>>
  ELSE ExpandToken(Head(tokens), prefix, g) \o ExpandTokens(Tail(tokens), prefix, g)

TestPrefix == <<"t", "e", "s", "t", "_">>

EntityIdDone == pc = "done" /\ op = "entityId"

IndexesReturned == pc = "done" /\ op = "indexesByTimeRange" /\ result.kind = "return"

----------------------------------------------------------------------------
(* C1 *)

SeqNo(decl) == IF decl.options.hasSeq THEN decl.options.seq ELSE 0

Before(x, y) ==
  \/ SeqNo(x) < SeqNo(y)
  \/ SeqNo(x) = SeqNo(y) /\ LocaleCompare(x.prop, y.prop) < 0

\* the declarations in ascending (seq, name) order
Ordered(decls) ==
  LET n == Len(decls)
      perm == CHOOSE f \in [1..n -> 1..n] :
                /\ \A i, j \in 1..n : i # j => f[i] # f[j]
                /\ \A i, j \in 1..n : i < j => Before(decls[f[i]], decls[f[j]])
  IN [i \in 1..n |-> decls[perm[i]]]

RECURSIVE Join(_, _)
Join(strings, delimiter) ==
  IF Len(strings) = 0 THEN <<>>
  ELSE IF Len(strings) = 1 THEN strings[1]
  ELSE strings[1] \o delimiter \o Join(Tail(strings), delimiter)

DelimiterUsed == IF args.delimiter.t = "undefined" THEN <<"-">> ELSE args.delimiter.s

AllIdValuesPresent ==
  \A i \in 1..Len(args.entity.idProps) : args.entity.values[args.entity.idProps[i].prop].t = "string"

----------------------------------------------------------------------------
(* C2 *)

----------------------------------------------------------------------------
(* C3 *)

\* C3: with group selection, replacing every group token by the concrete
\* units of the period it names gives the tokens of the call without group
\* selection: one per unit of the span, none before the start unit or after
\* the end unit.
C3_CompressionPreservesSelection ==
  (IndexesReturned /\ args.enableGroupSelect) =>
     ExpandTokens(result.value, args.prefix, args.splitPeriodType)
       = ConcreteSpan(args.prefix, args.startAt, args.endAt, args.splitPeriodType)

\* daily, 2019-01-01 .. 2020-01-03: the year token and three days
C3_Witness ==
  /\ IndexesReturned
  /\ args.enableGroupSelect
  /\ args.splitPeriodType = "DAILY"
  /\ args.startAt = 1546300800
  /\ args.endAt = 1578009599
  /\ result.value =
       <<<<"t", "e", "s", "t", "_", "2", "0", "1", "9", ".", "*">>,
         <<"t", "e", "s", "t", "_", "2", "0", "2", "0", ".", "0", "1", ".", "0", "1">>,
         <<"t", "e", "s", "t", "_", "2", "0", "2", "0", ".", "0", "1", ".", "0", "2">>,
         <<"t", "e", "s", "t", "_", "2", "0", "2", "0", ".", "0", "1", ".", "0", "3">>>>

----------------------------------------------------------------------------
(* C4 *)

CursorUnit == UnitIndex(Unix(cursor), args.splitPeriodType)

EndUnit == UnitIndex(args.endAt, args.splitPeriodType)

CursorYear == CivilFromDays(DayIndex(Unix(cursor))).year

CursorMonth == MonthIndexOfDay(DayIndex(Unix(cursor)))

\* the cursor is on the first unit of its year, and the last unit of that
\* year is not after the end unit
YearGroupDue ==
  /\ args.enableGroupSelect
  /\ args.splitPeriodType \in {"DAILY", "MONTHLY"}
  /\ CursorUnit = FirstUnitOfYear(CursorYear, args.splitPeriodType)
  /\ LastUnitOfYear(CursorYear, args.splitPeriodType) <= EndUnit

\* the cursor is on day 1 of its month, and the last day of that month is
\* not after the end day
MonthGroupDue ==
  /\ args.enableGroupSelect
  /\ args.splitPeriodType = "DAILY"
  /\ CursorUnit = FirstDayOfMonth(CursorMonth)
  /\ LastDayOfMonth(CursorMonth) <= EndUnit

Pushed == suffexes'[Len(suffexes')]

\* C4: every iteration pushes the year token exactly when the cursor is on
\* the first unit of a year that ends within the range, otherwise (daily)
\* the month token exactly when the cursor is on day 1 of a month that ends
\* within the range, otherwise the concrete unit; and the cursor moves to
\* the first unit after what the token names.
C4_GroupTokenRule ==
  [][(pc = "loop" /\ suffexes' # suffexes) =>
       /\ suffexes' = Append(suffexes, Pushed)
       /\ IF YearGroupDue
          THEN /\ Pushed = YearGroupLabel(CursorYear)
               /\ Unix(cursor') = UnitStart(LastUnitOfYear(CursorYear, args.splitPeriodType) + 1,
                                            args.splitPeriodType)
          ELSE IF MonthGroupDue
          THEN /\ Pushed = MonthGroupLabel(CursorMonth)
               /\ Unix(cursor') = UnitStart(LastDayOfMonth(CursorMonth) + 1, "DAILY")
          ELSE /\ Pushed = UnitLabel(CursorUnit, args.splitPeriodType)
               /\ Unix(cursor') = UnitStart(CursorUnit + 1, args.splitPeriodType)]_vars

\* a year token, a month token and a day of one daily result
C4_Witness ==
  /\ IndexesReturned
  /\ args.enableGroupSelect
  /\ args.splitPeriodType = "DAILY"
  /\ \E i, j, k \in 1..Len(result.value) :
       /\ i < j /\ j < k
       /\ Len(result.value[i]) = Len(args.prefix) + 6
       /\ Len(result.value[j]) = Len(args.prefix) + 9
       /\ Len(result.value[k]) = Len(args.prefix) + 10

----------------------------------------------------------------------------
(* C5 *)

StartUnit == UnitIndex(args.startAt, args.splitPeriodType)

YearInside(y) ==
  /\ StartUnit <= FirstUnitOfYear(y, args.splitPeriodType)
  /\ LastUnitOfYear(y, args.splitPeriodType) <= EndUnit

MonthInside(mi) == StartUnit <= FirstDayOfMonth(mi) /\ LastDayOfMonth(mi) <= EndUnit

\* the fewest tokens that select the units of the span and no other: one per
\* year inside the span, one per month inside the span outside those years
\* (daily), one per remaining unit
MinimalTokenCount ==
  LET g == args.splitPeriodType
      years == IF g = "YEARLY" THEN {}
               ELSE {y \in CivilFromDays(DayIndex(args.startAt)).year
                           ..CivilFromDays(DayIndex(args.endAt)).year : YearInside(y)}
      months == IF g # "DAILY" THEN {}
                ELSE {mi \in MonthIndexOfDay(StartUnit)..MonthIndexOfDay(EndUnit) :
                        MonthInside(mi) /\ mi \div 12 \notin years}
      YearOfUnit(u) == CASE g = "DAILY" -> CivilFromDays(u).year
                         [] g = "MONTHLY" -> u \div 12
                         [] g = "YEARLY" -> u
      rest == {u \in StartUnit..EndUnit :
                 /\ YearOfUnit(u) \notin years
                 /\ g = "DAILY" => MonthIndexOfDay(u) \notin months}
  IN Cardinality(years) + Cardinality(months) + Cardinality(rest)

\* C5: with group selection no year inside the span is represented by month
\* or day tokens and (daily) no month inside the span by day tokens, and the
\* result has the fewest tokens that select exactly the units of the span.
C5_CompressedIsMinimal ==
  (IndexesReturned /\ args.enableGroupSelect) =>
     /\ \A i \in 1..Len(result.value) :
          LET suffix == SubSeq(result.value[i], Len(args.prefix) + 1, Len(result.value[i]))
              y == Number(SubSeq(suffix, 1, 4))
          IN /\ (args.splitPeriodType # "YEARLY" /\ Len(suffix) \in {7, 9, 10}) => ~YearInside(y)
             /\ Len(suffix) = 10 => ~MonthInside(12 * y + Number(SubSeq(suffix, 6, 7)) - 1)
     /\ Len(result.value) = MinimalTokenCount

\* daily, 2020-03-10 .. 2025-01-10: 22 days, 9 months, 4 years, 10 days
C5_Witness ==
  /\ IndexesReturned
  /\ args.enableGroupSelect
  /\ args.splitPeriodType = "DAILY"
  /\ args.startAt = 1583766000
  /\ args.endAt = 1736434800
  /\ result.value =
       <<<<"t", "e", "s", "t", "_", "2", "0", "2", "0", ".", "0", "3", ".", "1", "0">>,
         <<"t", "e", "s", "t", "_", "2", "0", "2", "0", ".", "0", "3", ".", "1", "1">>,
         <<"t", "e", "s", "t", "_", "2", "0", "2", "0", ".", "0", "3", ".", "1", "2">>,
         <<"t", "e", "s", "t", "_", "2", "0", "2", "0", ".", "0", "3", ".", "1", "3">>,
         <<"t", "e", "s", "t", "_", "2", "0", "2", "0", ".", "0", "3", ".", "1", "4">>,
         <<"t", "e", "s", "t", "_", "2", "0", "2", "0", ".", "0", "3", ".", "1", "5">>,
         <<"t", "e", "s", "t", "_", "2", "0", "2", "0", ".", "0", "3", ".", "1", "6">>,
         <<"t", "e", "s", "t", "_", "2", "0", "2", "0", ".", "0", "3", ".", "1", "7">>,
         <<"t", "e", "s", "t", "_", "2", "0", "2", "0", ".", "0", "3", ".", "1", "8">>,
         <<"t", "e", "s", "t", "_", "2", "0", "2", "0", ".", "0", "3", ".", "1", "9">>,
         <<"t", "e", "s", "t", "_", "2", "0", "2", "0", ".", "0", "3", ".", "2", "0">>,
         <<"t", "e", "s", "t", "_", "2", "0", "2", "0", ".", "0", "3", ".", "2", "1">>,
         <<"t", "e", "s", "t", "_", "2", "0", "2", "0", ".", "0", "3", ".", "2", "2">>,
         <<"t", "e", "s", "t", "_", "2", "0", "2", "0", ".", "0", "3", ".", "2", "3">>,
         <<"t", "e", "s", "t", "_", "2", "0", "2", "0", ".", "0", "3", ".", "2", "4">>,
         <<"t", "e", "s", "t", "_", "2", "0", "2", "0", ".", "0", "3", ".", "2", "5">>,
         <<"t", "e", "s", "t", "_", "2", "0", "2", "0", ".", "0", "3", ".", "2", "6">>,
         <<"t", "e", "s", "t", "_", "2", "0", "2", "0", ".", "0", "3", ".", "2", "7">>,
         <<"t", "e", "s", "t", "_", "2", "0", "2", "0", ".", "0", "3", ".", "2", "8">>,
         <<"t", "e", "s", "t", "_", "2", "0", "2", "0", ".", "0", "3", ".", "2", "9">>,
         <<"t", "e", "s", "t", "_", "2", "0", "2", "0", ".", "0", "3", ".", "3", "0">>,
         <<"t", "e", "s", "t", "_", "2", "0", "2", "0", ".", "0", "3", ".", "3", "1">>,
         <<"t", "e", "s", "t", "_", "2", "0", "2", "0", ".", "0", "4", ".", "*">>,
         <<"t", "e", "s", "t", "_", "2", "0", "2", "0", ".", "0", "5", ".", "*">>,
         <<"t", "e", "s", "t", "_", "2", "0", "2", "0", ".", "0", "6", ".", "*">>,
         <<"t", "e", "s", "t", "_", "2", "0", "2", "0", ".", "0", "7", ".", "*">>,
         <<"t", "e", "s", "t", "_", "2", "0", "2", "0", ".", "0", "8", ".", "*">>,
         <<"t", "e", "s", "t", "_", "2", "0", "2", "0", ".", "0", "9", ".", "*">>,
         <<"t", "e", "s", "t", "_", "2", "0", "2", "0", ".", "1", "0", ".", "*">>,
         <<"t", "e", "s", "t", "_", "2", "0", "2", "0", ".", "1", "1", ".", "*">>,
         <<"t", "e", "s", "t", "_", "2", "0", "2", "0", ".", "1", "2", ".", "*">>,
         <<"t", "e", "s", "t", "_", "2", "0", "2", "1", ".", "*">>,
         <<"t", "e", "s", "t", "_", "2", "0", "2", "2", ".", "*">>,
         <<"t", "e", "s", "t", "_", "2", "0", "2", "3", ".", "*">>,
         <<"t", "e", "s", "t", "_", "2", "0", "2", "4", ".", "*">>,
         <<"t", "e", "s", "t", "_", "2", "0", "2", "5", ".", "0", "1", ".", "0", "1">>,
         <<"t", "e", "s", "t", "_", "2", "0", "2", "5", ".", "0", "1", ".", "0", "2">>,
         <<"t", "e", "s", "t", "_", "2", "0", "2", "5", ".", "0", "1", ".", "0", "3">>,
         <<"t", "e", "s", "t", "_", "2", "0", "2", "5", ".", "0", "1", ".", "0", "4">>,
         <<"t", "e", "s", "t", "_", "2", "0", "2", "5", ".", "0", "1", ".", "0", "5">>,
         <<"t", "e", "s", "t", "_", "2", "0", "2", "5", ".", "0", "1", ".", "0", "6">>,
         <<"t", "e", "s", "t", "_", "2", "0", "2", "5", ".", "0", "1", ".", "0", "7">>,
         <<"t", "e", "s", "t", "_", "2", "0", "2", "5", ".", "0", "1", ".", "0", "8">>,
         <<"t", "e", "s", "t", "_", "2", "0", "2", "5", ".", "0", "1", ".", "0", "9">>,
         <<"t", "e", "s", "t", "_", "2", "0", "2", "5", ".", "0", "1", ".", "1", "0">>>>

----------------------------------------------------------------------------
(* C6 *)

Wildcard == <<"*">>

\* C6 as claimed: more than 100 resolved tokens are replaced by the single
\* token prefix + "*", so a result never has more than 100 tokens.
C6_FallbackAbove100 ==
  IndexesReturned =>
     /\ Len(suffexes) > 100 => result.value = <<args.prefix \o Wildcard>>
     /\ Len(result.value) <= 100

\* C6 as amended: there is no fallback.  Every resolved token is returned,
\* also when there are more than 100 of them, and no token is prefix + "*".
C6_NoFallback ==
  IndexesReturned =>
     /\ result.value = [i \in 1..Len(suffexes) |-> args.prefix \o suffexes[i]]
     /\ \A i \in 1..Len(result.value) : result.value[i] # args.prefix \o Wildcard

\* more than 100 tokens returned
C6_Witness ==
  /\ IndexesReturned
  /\ ~args.enableGroupSelect
  /\ Len(suffexes) > 100
  /\ Len(result.value) = Len(suffexes)

----------------------------------------------------------------------------
(* C7 *)

\* C7: the call fails with InvalidTimeRangeError exactly when endAt < startAt,
\* for every period type, supported or not, and both values of
\* enableGroupSelect; it then resolves and returns no token.
C7_InvalidTimeRange ==
  op = "indexesByTimeRange" =>
     /\ pc = "loop" => args.endAt >= args.startAt
     /\ pc = "done" =>
          /\ (args.endAt < args.startAt)
               <=> (result.kind = "throw" /\ result.error = "InvalidTimeRangeError")
          /\ args.endAt < args.startAt => (result.value = <<>> /\ suffexes = <<>>)

\* an inverted range with a period type that is not supported
C7_Witness ==
  /\ pc = "done"
  /\ op = "indexesByTimeRange"
  /\ args.endAt < args.startAt
  /\ args.splitPeriodType = "HOURLY"
  /\ result.kind = "throw"
  /\ result.error = "InvalidTimeRangeError"

----------------------------------------------------------------------------
(* C8 *)

Supported == {"DAILY", "MONTHLY", "YEARLY"}

\* C8: for a valid range indexesByTimeRange fails with the RangeError of an
\* unsupported period type exactly when the type is not DAILY, MONTHLY or
\* YEARLY, and then returns no token; so does periodIndexName.
C8_UnsupportedPeriodType ==
  /\ (op = "indexesByTimeRange" /\ pc = "loop") => args.splitPeriodType \in Supported
  /\ (op = "indexesByTimeRange" /\ pc = "done" /\ args.endAt >= args.startAt) =>
        /\ (args.splitPeriodType \notin Supported)
             <=> (result.kind = "throw" /\ result.error = "RangeError")
        /\ args.splitPeriodType \notin Supported => (result.value = <<>> /\ suffexes = <<>>)
  /\ (op = "periodIndexName" /\ pc = "done") =>
        /\ (args.splitPeriodType \notin Supported)
             <=> (result.kind = "throw" /\ result.error = "RangeError")
        /\ args.splitPeriodType \notin Supported => result.value = <<>>

\* a valid range with a period type that is not supported
C8_Witness ==
  /\ pc = "done"
  /\ op = "indexesByTimeRange"
  /\ args.endAt >= args.startAt
  /\ args.splitPeriodType = "HOURLY"
  /\ result.kind = "throw"
  /\ result.error = "RangeError"

----------------------------------------------------------------------------
(* C9 *)

\* the value of an id field as a segment: nothing when it is absent
Segment(v) == IF v.t = "string" THEN v.s ELSE <<>>

\* C9: an absent (undefined or null) id value contributes an empty segment:
\* the result is the segments in (seq, name) order joined by the delimiter,
\* n - 1 bare delimiters when all n values are absent.
C9_AbsentIsEmptySegment ==
  (EntityIdDone /\ args.entity.idProps # <<>>) =>
     LET ordered == Ordered(args.entity.idProps)
         segments == [i \in 1..Len(ordered) |-> Segment(args.entity.values[ordered[i].prop])]
     IN result.value = JsStr(Join(segments, DelimiterUsed))

----------------------------------------------------------------------------
(* C10 *)

\* C10: entityId returns undefined exactly when the type declares no id
\* field, and a string whenever it declares one.
C10_UndefinedIffNoIdField ==
  EntityIdDone =>
     /\ result.kind = "return"
     /\ (result.value = JsUndefined) <=> (args.entity.idProps = <<>>)
     /\ args.entity.idProps # <<>> => result.value.t = "string"

\* a type without id fields
C10_Witness ==
  /\ EntityIdDone
  /\ args.entity.idProps = <<>>
  /\ result.value = JsUndefined

----------------------------------------------------------------------------
(* C11 *)

RoutingIdDone == pc = "done" /\ op = "routingId"

\* no value: undefined or null
Absent(v) == v = JsUndefined \/ v = JsNull

\* the current value of the routing field of an entity whose type declares one
RoutingField(entity) == entity.values[entity.routingProp.s]

----------------------------------------------------------------------------
(* C12 *)

DigitChars == {"0", "1", "2", "3", "4", "5", "6", "7", "8", "9"}

IsDigits(chars) == \A i \in 1..Len(chars) : chars[i] \in DigitChars

\* YYYY
IsYearForm(suffix) == Len(suffix) = 4 /\ IsDigits(suffix)

\* YYYY.MM
IsMonthForm(suffix) ==
  /\ Len(suffix) = 7
  /\ IsYearForm(SubSeq(suffix, 1, 4))
  /\ suffix[5] = "."
  /\ IsDigits(SubSeq(suffix, 6, 7))

\* YYYY.MM.DD
IsDayForm(suffix) ==
  /\ Len(suffix) = 10
  /\ IsMonthForm(SubSeq(suffix, 1, 7))
  /\ suffix[8] = "."
  /\ IsDigits(SubSeq(suffix, 9, 10))

\* YYYY.*
IsYearGroupForm(suffix) ==
  Len(suffix) = 6 /\ IsYearForm(SubSeq(suffix, 1, 4)) /\ SubSeq(suffix, 5, 6) = <<".", "*">>

\* YYYY.MM.*
IsMonthGroupForm(suffix) ==
  Len(suffix) = 9 /\ IsMonthForm(SubSeq(suffix, 1, 7)) /\ SubSeq(suffix, 8, 9) = <<".", "*">>

\* the forms a granularity allows
AllowedForm(suffix, g, enableGroupSelect) ==
  CASE g = "YEARLY" -> IsYearForm(suffix)
    [] g = "MONTHLY" -> IsMonthForm(suffix) \/ (enableGroupSelect /\ IsYearGroupForm(suffix))
    [] g = "DAILY" ->
         \/ IsDayForm(suffix)
         \/ (enableGroupSelect /\ (IsMonthGroupForm(suffix) \/ IsYearGroupForm(suffix)))

HasPrefix(token, prefix) ==
  Len(token) >= Len(prefix) /\ SubSeq(token, 1, Len(prefix)) = prefix

\* C12: every token of a result is the caller's prefix followed by a suffix of a form
\* allowed for the granularity: YEARLY only YYYY, and the yearly result is the list of
\* the years of the range for both values of enableGroupSelect; MONTHLY only YYYY.MM
\* or YYYY.*; DAILY only YYYY.MM.DD, YYYY.MM.* or YYYY.*; without enableGroupSelect
\* only the concrete form
C12_TokenForms ==
  IndexesReturned =>
    /\ \A i \in 1..Len(result.value) :
         /\ HasPrefix(result.value[i], args.prefix)
         /\ AllowedForm(SubSeq(result.value[i], Len(args.prefix) + 1, Len(result.value[i])),
                        args.splitPeriodType, args.enableGroupSelect)
    /\ args.splitPeriodType = "YEARLY" =>
         result.value = ConcreteSpan(args.prefix, args.startAt, args.endAt, "YEARLY")

\* a monthly result that has a year group and single months, under a prefix
C12_Witness ==
  /\ IndexesReturned
  /\ args.enableGroupSelect
  /\ args.splitPeriodType = "MONTHLY"
  /\ args.prefix # <<>>
  /\ \E i \in 1..Len(result.value) : IsGroupToken(result.value[i])
  /\ \E i \in 1..Len(result.value) : ~IsGroupToken(result.value[i])

----------------------------------------------------------------------------
(* C13 *)

\* the label of the UTC day numbered n
UtcDayLabel(n) == DayLabel(CivilFromDays(n))

\* C13: the daily bucket of a timestamp is its calendar date at +09:00, on every host:
\* a daily range whose two ends have the same floor((t + 32400) / 86400) resolves to the
\* one token of that day, and a timestamp at 15:00:00 UTC resolves to the label of the
\* next UTC day
C13_BucketByDateAtOffset ==
  (/\ IndexesReturned
   /\ args.splitPeriodType = "DAILY"
   /\ (args.startAt + 32400) \div 86400 = (args.endAt + 32400) \div 86400)
  => /\ result.value = <<args.prefix \o UtcDayLabel((args.startAt + 32400) \div 86400)>>
     /\ args.startAt % 86400 = 54000 =>
          result.value = <<args.prefix \o UtcDayLabel(args.startAt \div 86400 + 1)>>

\* midnight at +09:00, which is 15:00:00 UTC of the day before
C13_Witness ==
  /\ IndexesReturned
  /\ args.splitPeriodType = "DAILY"
  /\ args.startAt = args.endAt
  /\ args.startAt % 86400 = 54000
  /\ Len(result.value) = 1

----------------------------------------------------------------------------
(* C14 *)

\* token i of the result without the prefix
SuffixAt(i) == SubSeq(result.value[i], Len(args.prefix) + 1, Len(result.value[i]))

SuffixYear(suffix) == Number(SubSeq(suffix, 1, 4))

SuffixMonth(suffix) == 12 * SuffixYear(suffix) + Number(SubSeq(suffix, 6, 7)) - 1

\* the first and the last unit of the period a suffix names, told by its form
FirstUnitOfSuffix(suffix, g) ==
  CASE Len(suffix) = 4 -> SuffixYear(suffix)
    [] Len(suffix) = 6 -> FirstUnitOfYear(SuffixYear(suffix), g)
    [] Len(suffix) = 7 -> SuffixMonth(suffix)
    [] Len(suffix) = 9 -> FirstDayOfMonth(SuffixMonth(suffix))
    [] Len(suffix) = 10 -> FirstDayOfMonth(SuffixMonth(suffix)) + Number(SubSeq(suffix, 9, 10)) - 1

LastUnitOfSuffix(suffix, g) ==
  CASE Len(suffix) = 4 -> SuffixYear(suffix)
    [] Len(suffix) = 6 -> LastUnitOfYear(SuffixYear(suffix), g)
    [] Len(suffix) = 7 -> SuffixMonth(suffix)
    [] Len(suffix) = 9 -> LastDayOfMonth(SuffixMonth(suffix))
    [] Len(suffix) = 10 -> FirstDayOfMonth(SuffixMonth(suffix)) + Number(SubSeq(suffix, 9, 10)) - 1

\* C14: the tokens of a result are pairwise distinct and strictly increasing in time
\* (the period of each token ends before the period of the next one starts), the
\* de-duplication removes none of the suffixes the loop pushed, and a range whose start
\* and end fall in the same unit yields exactly one token
C14_DistinctIncreasing ==
  IndexesReturned =>
    /\ Cardinality({result.value[i] : i \in 1..Len(result.value)}) = Len(result.value)
    /\ \A i \in 1..(Len(result.value) - 1) :
         LastUnitOfSuffix(SuffixAt(i), args.splitPeriodType)
           < FirstUnitOfSuffix(SuffixAt(i + 1), args.splitPeriodType)
    /\ Len(result.value) = Len(suffexes)
    /\ result.value = [i \in 1..Len(suffexes) |-> args.prefix \o suffexes[i]]
    /\ StartUnit = EndUnit => Len(result.value) = 1

\* two different instants of one month, asked by month
C14_Witness ==
  /\ IndexesReturned
  /\ args.splitPeriodType = "MONTHLY"
  /\ args.startAt < args.endAt
  /\ StartUnit = EndUnit
  /\ Len(result.value) = 1

----------------------------------------------------------------------------
(* C16 *)

\* createEntity or indexEntity has succeeded for an entity with declared id fields
Written ==
  /\ pc = "done"
  /\ op \in {"createEntity", "indexEntity"}
  /\ result.kind = "return"
  /\ args.entity.idProps # <<>>

DerivedId == EntityIdOf(args.entity, JsUndefined)

DerivedRouting == RoutingIdOf(args.entity)

\* what entityWithMetadata can return now for the class of the entity written, asked
\* with id = entityId(e) and routing = routingId(e) in the index written to
ReadBack ==
  {EntityWithMetadataOf(args.entity.excluded, body) :
     body \in ClientGet(store, GetParams(args.index, DerivedId.s, DerivedRouting))}

\* the id and the routing of the request are the derived ones, the routing being sent
\* only when it is not empty
SentAsDerived ==
  /\ request.index = args.index
  /\ request.id = DerivedId
  /\ Truthy(DerivedRouting) => request.routing = DerivedRouting
  /\ ~Truthy(DerivedRouting) => request.routing = JsUndefined

\* the read returns the document as it was stored
ReadsStoredDocument(read) ==
  /\ read.kind = "return"
  /\ read.value.defined
  /\ read.value.entity = Serialize(ClassToPlain(args.entity))
  /\ read.value.metadata.id = DerivedId.s
  /\ read.value.metadata.index = args.index

\* equal values, null and undefined both being no value
SameValue(v, w) == v = w \/ (Absent(v) /\ Absent(w))

----------------------------------------------------------------------------
(* C17 *)

\* createEntity or indexEntity has run on an entity whose derived id is undefined or ""
WrittenWithoutId ==
  /\ pc = "done"
  /\ op \in {"createEntity", "indexEntity"}
  /\ ~Truthy(DerivedId)

\* C17: on an entity whose derived id is absent or empty, createEntity throws and sends
\* no request, and indexEntity sends an index request without an id, to which the store
\* assigns one
C17_MissingIdentity ==
  WrittenWithoutId =>
    /\ op = "createEntity" =>
         /\ result.kind = "throw"
         /\ result.error = "Error"
         /\ request = NoRequest
    /\ op = "indexEntity" =>
         /\ request.api = "index"
         /\ request.id = JsUndefined
         /\ result.kind = "return"
         /\ result.value.id \in AutoIds
         /\ <<args.index, result.value.id>> \in DOMAIN store

----------------------------------------------------------------------------
(* C18 *)

\* a write operation has sent its request
WriteSent ==
  /\ pc = "done"
  /\ op \in {"createEntity", "indexEntity", "upsertEntity", "updateEntity", "deleteEntity"}
  /\ request # NoRequest

\* C18 as stated: the id of the request of every write operation (create, index, upsert,
\* update, delete) is the value entityId computes for the entity being written
C18_IdDerivedInEveryWrite ==
  WriteSent => request.id = DerivedId

\* C18, amended: createEntity and indexEntity send the id entityId computes for the
\* entity; upsertEntity, updateEntity and deleteEntity send the id and the routing the
\* caller passes, whatever entityId computes for the entity
C18_IdDerivedOrPassed ==
  WriteSent =>
    /\ op \in {"createEntity", "indexEntity"} => request.id = DerivedId
    /\ op \in {"upsertEntity", "updateEntity", "deleteEntity"} =>
         /\ request.id = JsStr(args.id)
         /\ request.routing = (IF Truthy(args.routing) THEN args.routing ELSE JsUndefined)
    /\ op \in {"upsertEntity", "updateEntity"} => request.body = ClassToPlain(args.entity)

\* an upsert under an id that is not the one entityId computes for the entity
C18_Witness ==
  /\ WriteSent
  /\ op = "upsertEntity"
  /\ result.kind = "return"
  /\ request.id = JsStr(<<"#", "1">>)
  /\ DerivedId = JsStr(<<"a">>)

----------------------------------------------------------------------------
(* C19 *)

\* an iteration of a loop of indexesByTimeRange
Iterates == pc = "loop" /\ suffexes' # suffexes

\* the units left between the cursor and the aligned end: what every iteration lowers
UnitsLeft == EndUnit - CursorUnit

\* C19: indexesByTimeRange terminates for endAt >= startAt and a supported granularity.
\* Each iteration of a loop is taken with at least zero units left, moves the cursor
\* strictly forward by at least one unit, also when a group token makes it jump, and
\* leaves the aligned end alone, so the units left decrease; in a loop the cursor is at
\* least as many units past the start as iterations were made, hence a call makes at
\* most EndUnit - StartUnit + 1 iterations, after which only the return is left
C19_Terminates ==
  /\ [][Iterates => /\ UnitsLeft >= 0
                    /\ Unix(cursor') > Unix(cursor)
                    /\ UnitIndex(Unix(cursor'), args.splitPeriodType) >= CursorUnit + 1
                    /\ endAtDate' = endAtDate
                    /\ UnitsLeft' < UnitsLeft]_vars
  /\ [](pc = "loop" =>
          /\ CursorUnit >= StartUnit + Len(suffexes)
          /\ Len(suffexes) <= EndUnit - StartUnit + 1
          /\ ~LoopCondition(cursor, endAtDate) <=> UnitsLeft < 0)

\* a call has returned after a loop in which a group token made the cursor jump
C19_Witness ==
  /\ IndexesReturned
  /\ args.splitPeriodType = "DAILY"
  /\ args.enableGroupSelect
  /\ Len(suffexes) > 2
  /\ \E i \in 1..Len(suffexes) : IsGroupToken(suffexes[i])
  /\ Unix(cursor) > Unix(endAtDate)

----------------------------------------------------------------------------
(* C20 *)

\* a call of EsClient.instance, directly or by the constructor of a repository
InstanceCalled == pc = "idle" /\ pc' = "done" /\ op' \in {"instance", "constructor"}

InstanceReturned == pc = "done" /\ op \in {"instance", "constructor"}

\* C20: the cache holds one client for each JSON serialization of the options seen and
\* no two serializations share a client; a call whose options serialize as those of an
\* earlier call returns the client of the cache and constructs none, another call
\* constructs one client and adds it under its serialization; no entry is ever
\* replaced or removed
C20_Memoizes ==
  /\ [](/\ \A k1, k2 \in DOMAIN handlers : k1 # k2 => handlers[k1] # handlers[k2]
        /\ Cardinality(DOMAIN handlers) = clients
        /\ InstanceReturned =>
             /\ JsonStringify(args.target) \in DOMAIN handlers
             /\ result.value = handlers[JsonStringify(args.target)])
  /\ [][/\ \A k \in DOMAIN handlers : k \in DOMAIN handlers' /\ handlers'[k] = handlers[k]
        /\ InstanceCalled =>
             IF JsonStringify(args'.target) \in DOMAIN handlers
             THEN /\ handlers' = handlers
                  /\ clients' = clients
                  /\ result'.value = handlers[JsonStringify(args'.target)]
             ELSE /\ DOMAIN handlers' = DOMAIN handlers \cup {JsonStringify(args'.target)}
                  /\ clients' = clients + 1
                  /\ result'.value = clients + 1
        /\ ~InstanceCalled => handlers' = handlers /\ clients' = clients]_vars

\* options with a property that is undefined get the client made earlier for the
\* options without it, while another client has been made since
C20_Witness ==
  /\ InstanceReturned
  /\ Len(args.target) = 2
  /\ args.target[2].value = JsUndefined
  /\ clients = 2
  /\ result.value = 1

----------------------------------------------------------------------------
(* C21 *)

\* periodIndexName has returned a name
PeriodIndexNamed ==
  /\ pc = "done"
  /\ op = "periodIndexName"
  /\ result.kind = "return"

\* what indexesByTimeRange(prefix, t, t, g, false) returns on a host at hostOffset:
\* the loop runs from the start to the end of the unit of t at +09:00
IndexesOfInstant(prefix, t, g, hostOffset) ==
  LET first == StartOf(UtcOffset(MomentUnix(t, hostOffset), UtcOffsetHours), AlignUnit(g))
      last == EndOf(UtcOffset(MomentUnix(t, hostOffset), UtcOffsetHours), AlignUnit(g))
      body == LoopBody(first, last, g, FALSE)
  IN IF LoopCondition(first, last) /\ ~LoopCondition(body.cursor, last)
     THEN FinalIndexes(prefix, <<body.suffix>>)
     ELSE <<>>

\* C21: the name periodIndexName gives a timestamp is the one index that
\* indexesByTimeRange selects for the range from that timestamp to itself, without
\* group selection, in every time zone of the host
C21_WriteReadAgree ==
  PeriodIndexNamed =>
    IndexesOfInstant(args.prefix, args.startAt, args.splitPeriodType, args.hostOffset)
      = <<result.value>>

----------------------------------------------------------------------------
(* C22 *)

\* the values an id field is given in the calls of entityId
GivenIdValues == IdValues \cup DelimitedValues

\* the entities of the type of the entity of the call, over the given values
SameTypeEntities ==
  {[idProps |-> args.entity.idProps, values |-> v]
     : v \in [DOMAIN args.entity.values -> GivenIdValues]}

\* C22: an entity of the same type whose id-field values differ from those of the
\* entity of the call has another entityId under the delimiter of the call
C22_EntityIdInjective ==
  EntityIdDone =>
    \A other \in SameTypeEntities :
      other.values # args.entity.values
        => EntityIdOf(other, args.delimiter) # result.value

----------------------------------------------------------------------------
(* C23 *)

\* the Scroller holds a scroll id: scrollId is neither undefined nor ''
HoldsScrollId == scroller.scrollId.t = "string" /\ scroller.scrollId.s # <<>>

\* a call of scroll() starts while no other call is in flight
LoneScrollStarts == calls = <<>> /\ Len(calls') = 1 /\ scroller # NoScroller

\* the request a step sends
LastSent == wire[Len(wire)]

\* the answer a step delivers
LastAnswer == responses[Len(responses)]

\* the initial search of a call that no other call overlapped is answered
LoneSearchAnswered ==
  /\ Len(calls) = 1
  /\ calls[1].awaits = "search"
  /\ calls[1].alone
  /\ calls' = <<>>
  /\ Len(responses') = Len(responses) + 1
  /\ LastAnswer'.status = "resolved"

\* C23: with the calls of scroll() made one at a time, a call sends the initial search,
\* with the keep-alive, exactly when no scroll id is held, and the scroll of the id
\* held, with the keep-alive, otherwise; the scroll id of the answer of the initial
\* search is stored; on an answer without a scroll id the call returns undefined and
\* no scroll id is held
C23_RequestProtocol ==
  /\ [][LoneScrollStarts =>
          /\ Len(wire') = Len(wire) + 1
          /\ LastSent'.scroll = scroller.alive
          /\ LastSent'.api = IF HoldsScrollId THEN "scroll" ELSE "search"
          /\ HoldsScrollId => LastSent'.scroll_id = scroller.scrollId]_vars
  /\ [][LoneSearchAnswered =>
          IF LastAnswer'.body._scroll_id = JsUndefined
          THEN /\ result'.kind = "return"
               /\ ~result'.value.defined
               /\ ~HoldsScrollId'
               /\ wire' = wire
          ELSE /\ scroller'.scrollId = LastAnswer'.body._scroll_id
               /\ HoldsScrollId']_vars

\* a call made alone waits for the scroll of the id the Scroller holds
C23_Witness ==
  /\ Len(calls) = 1
  /\ calls[1].alone
  /\ calls[1].awaits = "scroll"
  /\ HoldsScrollId
  /\ LastSent = [api |-> "scroll", scroll_id |-> scroller.scrollId, scroll |-> scroller.alive]

----------------------------------------------------------------------------
(* C24 *)

\* the requests of clearScroll sent so far, by their place among the requests
ClearRequests == {i \in 1..Len(wire) : wire[i].api = "clearScroll"}

\* a call of scroll() has found its page empty with autoClealup on: it has started
\* the cleanup, which has sent clearScroll, and has returned undefined
EndReached == ClearRequests # {}

\* a call of scroll() starts
ScrollStarts == Len(calls') = Len(calls) + 1

\* the i-th call in flight ends in this step
Ends(i) == i \in 1..Len(calls) /\ calls' = Without(calls, i)

\* the call was made after the end was reached
MadeAfterEnd(call) == \E i \in ClearRequests : i < call.request

\* C24: after a call of scroll() has returned undefined on an empty page with the
\* cleanup on, no call of scroll() sends the initial search again, and every call
\* made from then on returns undefined
C24_EndIsAbsorbing ==
  /\ [][(EndReached /\ ScrollStarts) => LastSent'.api # "search"]_vars
  /\ [][\A i \in 1..Len(calls) :
          (Ends(i) /\ MadeAfterEnd(calls[i]))
            => /\ result'.kind = "return"
               /\ ~result'.value.defined]_vars

----------------------------------------------------------------------------
(* C25 *)

\* C25: no scroll is sent with a scroll id whose clearScroll has been sent before
\* it, and clearScroll is sent at most once for a scroll id
C25_NoUseAfterClear ==
  \A i \in ClearRequests :
    \A j \in 1..Len(wire) :
      /\ (j > i /\ wire[j].api = "scroll") => wire[j].scroll_id # wire[i].scroll_id
      /\ (j # i /\ wire[j].api = "clearScroll") => wire[j].scroll_id # wire[i].scroll_id

----------------------------------------------------------------------------
(* C26 *)

\* the answer is a response without an after key at the bucket name
WithoutAfterKey(answer) ==
  /\ answer.status = "resolved"
  /\ AfterKeyOf(answer.body, compositeAggScroller.bucketName) = JsUndefined

\* a response without an after key has been delivered
EndOfListAnswered == \E k \in 1..Len(responses) : WithoutAfterKey(responses[k])

\* scroll() has returned undefined
ReturnedUndefined == result.kind = "return" /\ ~result.value.defined

\* a step of a call of scroll() that does not wait: it ends in the step it starts in
ReturnsAtOnce == calls' = calls /\ responses' = responses /\ result' # result

\* a call of scroll() is answered with a response
AggAnswered ==
  /\ Len(calls') < Len(calls)
  /\ Len(responses') = Len(responses) + 1
  /\ LastAnswer'.status = "resolved"

\* before the end of the list a call of scroll() sends exactly one search, and a call
\* that is answered returns the response
PagesBeforeEnd ==
  /\ [][(~EndOfListAnswered /\ compositeAggScroller # NoCompositeAggScroller
           /\ (ScrollStarts \/ ReturnsAtOnce))
          => /\ ScrollStarts
             /\ Len(wire') = Len(wire) + 1
             /\ LastSent'.api = "search"]_vars
  /\ [][AggAnswered
          => /\ result'.kind = "return"
             /\ result'.value.defined
             /\ result'.value.res = LastAnswer'.body]_vars

\* C26 as stated: once a response without an after key has been delivered, no request
\* is sent any more and every call of scroll() returns undefined at once; before that,
\* every call sends exactly one search and returns its response
C26_EndOfListAbsorbing ==
  /\ [][EndOfListAnswered
          => /\ wire' = wire
             /\ ReturnsAtOnce => ReturnedUndefined']_vars
  /\ PagesBeforeEnd

\* C26, with the calls of scroll() made one at a time: a response without an after
\* key leaves the end-of-list marker; from the marker on, with no call in flight, no
\* request is sent, the marker stays and every call returns undefined at once; before
\* the end every call sends exactly one search and returns its response
C26_EndOfListAbsorbingOneAtATime ==
  /\ [][(AggAnswered /\ WithoutAfterKey(LastAnswer'))
          => compositeAggScroller'.afterKey = EOL_MARKER]_vars
  /\ [][(compositeAggScroller.afterKey = EOL_MARKER /\ calls = <<>>)
          => /\ wire' = wire
             /\ calls' = <<>>
             /\ compositeAggScroller' = compositeAggScroller
             /\ ReturnsAtOnce => ReturnedUndefined']_vars
  /\ PagesBeforeEnd

\* at the end of the list a call of scroll() has returned undefined without a request
C26_Witness ==
  /\ compositeAggScroller.afterKey = EOL_MARKER
  /\ calls = <<>>
  /\ EndOfListAnswered
  /\ ReturnedUndefined
  /\ Len(wire) = Len(responses)

----------------------------------------------------------------------------
(* C27 *)

\* the responses delivered so far, in the order of their delivery
Responded == SelectSeq(responses, LAMBDA answer : answer.status = "resolved")

\* the after key of the response delivered last
PrecedingAfterKey ==
  AfterKeyOf(Responded[Len(Responded)].body, compositeAggScroller.bucketName)

\* the dsl the scroller was constructed with, with the after key at the bucket name
DslWithAfter(bucketName, key) ==
  IF Len(bucketName) = 1
  THEN [body |-> [aggs |-> (bucketName[1] :> [composite |-> [after |-> key]])]]
  ELSE [body |-> [aggs |-> (bucketName[1] :>
         [aggs |-> (bucketName[2] :> [composite |-> [after |-> key]])])]]

\* a call of scroll() made while no other call is in flight sends a request
LoneAggScrollSends ==
  /\ compositeAggScroller # NoCompositeAggScroller
  /\ calls = <<>>
  /\ Len(calls') = 1
  /\ Len(wire') = Len(wire) + 1

\* C27: with the calls of scroll() made one at a time, the request of a call before
\* any response is the dsl as given, without an after key of the scroller; every later
\* request is that dsl with the after key of the response delivered last as the
\* composite's after, at the bucket name or at the nested bucket path
C27_PagesInOrder ==
  [][LoneAggScrollSends =>
       /\ LastSent'.api = "search"
       /\ LastSent'.dsl =
            IF Responded = <<>>
            THEN DslOf(compositeAggScroller.bucketName)
            ELSE DslWithAfter(compositeAggScroller.bucketName, PrecedingAfterKey)]_vars

\* a call made alone waits for the page behind the after key of the response before it,
\* which is another key than the one of the request before
C27_Witness ==
  /\ Len(calls) = 1
  /\ calls[1].alone
  /\ Len(wire) = 3
  /\ Len(Responded) = 2
  /\ PrecedingAfterKey \in AfterKeys
  /\ LastSent.dsl = DslWithAfter(compositeAggScroller.bucketName, PrecedingAfterKey)
  /\ wire[2].dsl # LastSent.dsl
  /\ Len(compositeAggScroller.bucketName) = 2

----------------------------------------------------------------------------
(* C28 *)

\* bulk has returned its result
BulkReturned == pc = "done" /\ op = "bulk" /\ result.kind = "return"

\* what the i-th item of the response carries under its action
Carried(i) == args.items[i][CHOOSE action \in DOMAIN args.items[i] : TRUE]

HasResult(info) == info.result # JsUndefined

\* the item carries an error and no result
IsError(info) == info.error.defined /\ ~HasResult(info)

\* the status is one of options.ignore
Ignored(info) == args.ignore.defined /\ info.status \in args.ignore.statuses

ResponseItems == 1..Len(args.items)

\* C28: items is what the items of the response carry, in their order; succeed counts
\* the items with a result; failed is the length of errors and counts the items with an
\* error and no result whose status is not ignored; succeed + failed is at most the
\* number of items, and is that number when no item is ignored and every item carries a
\* result or an error
C28_BulkAccounting ==
  BulkReturned =>
    LET res == result.value
    IN /\ res.items = [i \in ResponseItems |-> Carried(i)]
       /\ res.succeed = Cardinality({i \in ResponseItems : HasResult(Carried(i))})
       /\ res.failed = Len(res.errors)
       /\ res.failed =
            Cardinality({i \in ResponseItems : IsError(Carried(i)) /\ ~Ignored(Carried(i))})
       /\ res.succeed + res.failed <= Len(res.items)
       /\ (\A i \in ResponseItems :
             /\ HasResult(Carried(i)) \/ Carried(i).error.defined
             /\ ~(IsError(Carried(i)) /\ Ignored(Carried(i))))
            => res.succeed + res.failed = Len(res.items)

\* a response of a written item and a conflict that options.ignore names
C28_Witness ==
  /\ BulkReturned
  /\ Len(args.items) = 2
  /\ HasResult(Carried(1))
  /\ IsError(Carried(2)) /\ Ignored(Carried(2))
  /\ result.value.succeed = 1
  /\ result.value.failed = 0

====
